---------------------------- MODULE Spec2Model ----------------------------
(***************************************************************************)
(* The retry-and-select engine of sweagent/agent/reviewer.py: the          *)
(* Reviewer, the BinaryReviewer and the ReviewLoop that owns the           *)
(* submissions, their reviews, the comparison records, the best index and  *)
(* the consecutive exit-cost counter.                                      *)
(*                                                                         *)
(* A Python str is a string; chars gives its characters, on which strip,   *)
(* lower, split and "in" are computed as Python computes them.  Money is   *)
(* counted in whole units of the smallest amount the model distinguishes.  *)
(***************************************************************************)
EXTENDS Integers, Sequences, FiniteSets, TLC

VARIABLES
    cfg,                 \* ReviewLoopConfig + the sub-configs + the model handed to __init__
    submissions,         \* ReviewLoop._submissions
    reviews,             \* ReviewLoop._reviews
    comparisons,         \* ReviewLoop._comparisons
    best_idx,            \* ReviewLoop._best_idx
    n_consec_exit_cost,  \* ReviewLoop._n_consec_exit_cost
    last,                \* the last call made on the loop: [op, outcome, ret]
    pre,                 \* history: the loop's fields when the last on_submit was entered
    bcalls,              \* history: the arguments of every compare_submissions call
    rcalls,              \* history: the submission index of every Reviewer.review call
    outcomes,            \* history: how every on_submit call ended ("returned" or the exception)
    twin                 \* a second ReviewLoop built from the same configuration: its fields
                         \* and the outcome of the last call made on it

vars == <<cfg, submissions, reviews, comparisons, best_idx, n_consec_exit_cost,
          last, pre, bcalls, rcalls, outcomes, twin>>

(***************************************************************************)
(* Bounds of the model.                                                    *)
(***************************************************************************)
\* on_submit is called at most MaxSubs times in a run of the model
MaxSubs == 3
\* the costs the model reports (cumulative, per attempt) and its cost limit
\* stay within 0..MaxCost
MaxCost == 1
\* the carrier is handed at most MaxCarried submissions and MaxCarried reviews
MaxCarried == 2
\* the formatter is handed trajectories of at most MaxSteps steps
MaxSteps == 3

(***************************************************************************)
(* Python str operations, on the characters of a str.                      *)
(***************************************************************************)
\* The characters of the strs of the model
chars(s) ==
    CASE s = "submitted" -> <<"s", "u", "b", "m", "i", "t", "t", "e", "d">>
      [] s = "exit_cost" -> <<"e", "x", "i", "t", "_", "c", "o", "s", "t">>
      [] s = "submitted (exit_cost)" -> <<"s", "u", "b", "m", "i", "t", "t", "e", "d", " ", "(", "e", "x", "i", "t", "_", "c", "o", "s", "t", ")">>
      [] s = "success" -> <<"s", "u", "c", "c", "e", "s", "s">>
      [] s = "fail" -> <<"f", "a", "i", "l">>
      [] s = "first" -> <<"f", "i", "r", "s", "t">>
      [] s = "second" -> <<"s", "e", "c", "o", "n", "d">>
      [] s = "Success\n" -> <<"S", "u", "c", "c", "e", "s", "s", "\n">>
      [] s = "success\nFAIL" -> <<"s", "u", "c", "c", "e", "s", "s", "\n", "F", "A", "I", "L">>
      [] s = "second\nFirst" -> <<"s", "e", "c", "o", "n", "d", "\n", "F", "i", "r", "s", "t">>
      [] s = "Second " -> <<"S", "e", "c", "o", "n", "d", " ">>
      [] s = " submitted\n" -> <<" ", "s", "u", "b", "m", "i", "t", "t", "e", "d", "\n">>
      [] s = "Submitted" -> <<"S", "u", "b", "m", "i", "t", "t", "e", "d">>
      [] s = "SUCCESS\n \n" -> <<"S", "U", "C", "C", "E", "S", "S", "\n", " ", "\n">>
      [] s = "fail\nsuccess  " -> <<"f", "a", "i", "l", "\n", "s", "u", "c", "c", "e", "s", "s", " ", " ">>
      [] s = " \n" -> <<" ", "\n">>
      [] s = "unsure" -> <<"u", "n", "s", "u", "r", "e">>
      [] s = "fail, no success" -> <<"f", "a", "i", "l", ",", " ", "n", "o", " ", "s", "u", "c", "c", "e", "s", "s">>
      [] s = "first\nSECOND\n \n" -> <<"f", "i", "r", "s", "t", "\n", "S", "E", "C", "O", "N", "D", "\n", " ", "\n">>
      [] s = "second or first" -> <<"s", "e", "c", "o", "n", "d", " ", "o", "r", " ", "f", "i", "r", "s", "t">>
      [] s = "p" -> <<"p">>
      [] s = "ls" -> <<"l", "s">>
      [] s = " ls\n" -> <<" ", "l", "s", "\n">>
      [] s = "cat" -> <<"c", "a", "t">>
      [] s = "rm" -> <<"r", "m">>
      [] s = "ok" -> <<"o", "k">>
      [] s = "Your proposed edit has introduced new syntax error(s)" -> <<"Y", "o", "u", "r", " ", "p", "r", "o", "p", "o", "s", "e", "d", " ", "e", "d", "i", "t", " ", "h", "a", "s", " ", "i", "n", "t", "r", "o", "d", "u", "c", "e", "d", " ", "n", "e", "w", " ", "s", "y", "n", "t", "a", "x", " ", "e", "r", "r", "o", "r", "(", "s", ")">>
      [] s = "E: Your proposed edit has introduced new syntax error(s)." -> <<"E", ":", " ", "Y", "o", "u", "r", " ", "p", "r", "o", "p", "o", "s", "e", "d", " ", "e", "d", "i", "t", " ", "h", "a", "s", " ", "i", "n", "t", "r", "o", "d", "u", "c", "e", "d", " ", "n", "e", "w", " ", "s", "y", "n", "t", "a", "x", " ", "e", "r", "r", "o", "r", "(", "s", ")", ".">>
      [] s = "q" -> <<"q">>
      [] s = "" -> <<>>

Whitespace == {" ", "\n", "\t"}

LowerChar(c) ==
    CASE c = "A" -> "a" [] c = "C" -> "c" [] c = "D" -> "d" [] c = "E" -> "e"
      [] c = "F" -> "f" [] c = "I" -> "i" [] c = "L" -> "l" [] c = "N" -> "n"
      [] c = "O" -> "o" [] c = "R" -> "r" [] c = "S" -> "s" [] c = "T" -> "t"
      [] c = "U" -> "u" [] c = "X" -> "x" [] OTHER -> c

\* str.lower()
lower(s) == [i \in 1..Len(s) |-> LowerChar(s[i])]

\* str.strip(): drop the leading and the trailing whitespace
strip(s) ==
    LET keep == {i \in 1..Len(s) : s[i] \notin Whitespace}
    IN  IF keep = {} THEN <<>>
        ELSE LET lo == CHOOSE i \in keep : \A j \in keep : i <= j
                 hi == CHOOSE i \in keep : \A j \in keep : j <= i
             IN  SubSeq(s, lo, hi)

\* s.split("\n")[-1]: what follows the last newline (all of s when there is none)
last_line(s) ==
    LET nl == {i \in 1..Len(s) : s[i] = "\n"}
    IN  IF nl = {} THEN s
        ELSE LET hi == CHOOSE i \in nl : \A j \in nl : j <= i
             IN  SubSeq(s, hi + 1, Len(s))

\* sub in s
contains(s, sub) ==
    \E i \in 0..(Len(s) - Len(sub)) : SubSeq(s, i + 1, i + Len(sub)) = sub

\* s.startswith(p)
startswith(s, p) == Len(p) <= Len(s) /\ SubSeq(s, 1, Len(p)) = p

(***************************************************************************)
(* An entry of a submission's info dict: the key is absent, or it maps to  *)
(* None, or it maps to a str.  info.get(key) and info.get(key, "").        *)
(***************************************************************************)
Absent == [kind |-> "absent", s |-> ""]
None == [kind |-> "none", s |-> ""]
Str(s) == [kind |-> "str", s |-> s]

\* dict.get(key): None for an absent key
get(entry) == IF entry.kind = "absent" THEN None ELSE entry

\* dict.get(key, ""): "" for an absent key, the stored value (None included) otherwise
get_default_empty(entry) == IF entry.kind = "absent" THEN Str("") ELSE entry

\* Python truthiness of an Optional[str]
truthy(v) == v.kind = "str" /\ Len(chars(v.s)) > 0

(***************************************************************************)
(* Reviewer                                                                *)
(***************************************************************************)
\* The answers of the two desk-reject branches of Reviewer.review
NoExitStatusAnswer == <<"No exit status in submission, will reject.">>

DeskRejectAnswer(exit_status) == <<"Submission desk-rejected because of exit status", exit_status.s>>

\* Reviewer.format_messages: a system and a user message; the user message
\* interpolates the submission it is given
Reviewer_format_messages(submission) ==
    << [role |-> "system", content |-> <<"system_template">>],
       [role |-> "user", content |-> <<"instance_template", submission>>] >>

\* interpret looking for the lower-case words in the line as it is
Reviewer_interpret_case_sensitive(response) ==
    LET line == strip(last_line(strip(chars(response))))
    IN  IF contains(line, chars("success")) THEN TRUE
        ELSE IF contains(line, chars("fail")) THEN FALSE
        ELSE FALSE

\* Reviewer.interpret
Reviewer_interpret(response) ==
    LET line == lower(strip(last_line(strip(chars(response)))))
    IN  IF contains(line, chars("success")) THEN TRUE
        ELSE IF contains(line, chars("fail")) THEN FALSE
        ELSE FALSE

\* review comparing the exit status as it is, whitespace included, with "submitted"
Reviewer_review_no_strip(config, submission, oracle) ==
    LET exit_status == get(submission.exit_status)
    IN  IF ~truthy(exit_status)
        THEN [exc |-> "none", queried |-> FALSE,
              result |-> [accept |-> FALSE, output |-> NoExitStatusAnswer, messages |-> <<>>]]
        ELSE IF config.reject_exit_status /\ chars(exit_status.s) # chars("submitted")
        THEN [exc |-> "none", queried |-> FALSE,
              result |-> [accept |-> FALSE, output |-> DeskRejectAnswer(exit_status),
                          messages |-> <<>>]]
        ELSE IF oracle.raises
        THEN [exc |-> "OracleError", queried |-> TRUE, result |-> None]
        ELSE [exc |-> "none", queried |-> TRUE,
              result |-> [accept |-> Reviewer_interpret(oracle.text),
                          output |-> oracle.text,
                          messages |-> Reviewer_format_messages(submission)]]

\* Reviewer.review.  oracle = [raises, text] is what self._model.query does if
\* it is called.  The result: [exc, queried, result]
Reviewer_review(config, submission, oracle) ==
    LET exit_status == get(submission.exit_status)
    IN  IF ~truthy(exit_status)
        THEN [exc |-> "none", queried |-> FALSE,
              result |-> [accept |-> FALSE, output |-> NoExitStatusAnswer, messages |-> <<>>]]
        ELSE IF config.reject_exit_status /\ strip(chars(exit_status.s)) # chars("submitted")
        THEN [exc |-> "none", queried |-> FALSE,
              result |-> [accept |-> FALSE, output |-> DeskRejectAnswer(exit_status),
                          messages |-> <<>>]]
        ELSE IF oracle.raises
        THEN [exc |-> "OracleError", queried |-> TRUE, result |-> None]
        ELSE [exc |-> "none", queried |-> TRUE,
              result |-> [accept |-> Reviewer_interpret(oracle.text),
                          output |-> oracle.text,
                          messages |-> Reviewer_format_messages(submission)]]

(***************************************************************************)
(* BinaryReviewer                                                          *)
(***************************************************************************)
BinaryReviewer_format_messages(sub1, sub2) ==
    << [role |-> "system", content |-> <<"system_template">>],
       [role |-> "user", content |-> <<"instance_template", sub1, sub2>>] >>

\* BinaryReviewer.interpret
BinaryReviewer_interpret(response) ==
    LET line == lower(strip(last_line(strip(chars(response)))))
    IN  IF contains(line, chars("first")) THEN 0
        ELSE IF contains(line, chars("second")) THEN 1
        ELSE 0

\* compare_submissions choosing the first submission without a query of the
\* oracle when only the first review is accepted
compare_submissions_early_exit(sub1, sub2, rev1, rev2, oracle) ==
    IF rev1.kind = "review" /\ rev2.kind = "review" /\ rev1.accept /\ ~rev2.accept
    THEN [exc |-> "none", queried |-> FALSE,
          result |-> [choice |-> 0, output |-> "", messages |-> <<>>]]
    ELSE IF oracle.raises
    THEN [exc |-> "OracleError", queried |-> TRUE, result |-> None]
    ELSE [exc |-> "none", queried |-> TRUE,
          result |-> [choice |-> BinaryReviewer_interpret(oracle.text),
                      output |-> oracle.text,
                      messages |-> BinaryReviewer_format_messages(sub1, sub2)]]

\* BinaryReviewer.compare_submissions: [exc, queried, result]
compare_submissions(sub1, sub2, rev1, rev2, oracle) ==
    IF oracle.raises
    THEN [exc |-> "OracleError", queried |-> TRUE, result |-> None]
    ELSE [exc |-> "none", queried |-> TRUE,
          result |-> [choice |-> BinaryReviewer_interpret(oracle.text),
                      output |-> oracle.text,
                      messages |-> BinaryReviewer_format_messages(sub1, sub2)]]

(***************************************************************************)
(* GraveToCradle.  A dict is the set of its <<key, value>> items.  The     *)
(* value it builds is a str made of pieces: the sequence of its pieces,    *)
(* the empty sequence for "".                                              *)
(***************************************************************************)
\* str(i) for the numbers of the blocks
IntStr(i) ==
    CASE i = 1 -> "1" [] i = 2 -> "2" [] i = 3 -> "3" [] i = 4 -> "4" [] i = 5 -> "5"

\* [i for i, r in enumerate(reviews) if not r.accept], from index i on
RECURSIVE failed_idxs_from(_, _)
failed_idxs_from(revs, i) ==
    IF i >= Len(revs) THEN <<>>
    ELSE IF ~revs[i + 1].accept THEN <<i>> \o failed_idxs_from(revs, i + 1)
    ELSE failed_idxs_from(revs, i + 1)

\* The lines the loop over enumerate(failed_idxs) appends to msg_lines, from
\* its iteration i on
RECURSIVE msg_lines_from(_, _, _, _)
msg_lines_from(subs, revs, failed_idxs, i) ==
    IF i >= Len(failed_idxs) THEN <<>>
    ELSE LET idx == failed_idxs[i + 1]
             info == subs[idx + 1]
             rest == msg_lines_from(subs, revs, failed_idxs, i + 1)
         IN  IF ~truthy(get(info.submission)) THEN rest
             ELSE << <<"Submission ", IntStr(i + 1), ":\n\n", info.submission.s,
                       "\n\nReview ", IntStr(i + 1), ":\n\n", revs[idx + 1].output>> >>
                  \o rest

\* "\n\n".join(lines)
RECURSIVE join(_)
join(lines) ==
    IF Len(lines) = 0 THEN <<>>
    ELSE IF Len(lines) = 1 THEN lines[1]
    ELSE lines[1] \o <<"\n\n">> \o join(Tail(lines))

\* The header line of the forwarded message
FailedHeader == <<"The following previous submissions were deemed to be incorrect:">>

\* The lines of a loop that takes the review at the block's position among the
\* rejected ones instead of the review of the submission
RECURSIVE msg_lines_by_position_from(_, _, _, _)
msg_lines_by_position_from(subs, revs, failed_idxs, i) ==
    IF i >= Len(failed_idxs) THEN <<>>
    ELSE LET idx == failed_idxs[i + 1]
             info == subs[idx + 1]
             rest == msg_lines_by_position_from(subs, revs, failed_idxs, i + 1)
         IN  IF ~truthy(get(info.submission)) THEN rest
             ELSE << <<"Submission ", IntStr(i + 1), ":\n\n", info.submission.s,
                       "\n\nReview ", IntStr(i + 1), ":\n\n", revs[i + 1].output>> >>
                  \o rest

\* get_forwarded_vars pairing a final answer with the review at the block's
\* position
GraveToCradle_pairs_by_position(subs, revs, breviews) ==
    IF Len(subs) # Len(revs) THEN [exc |-> "AssertionError", ret |-> {}]
    ELSE LET failed_idxs == failed_idxs_from(revs, 0)
         IN  IF Len(failed_idxs) = 0
             THEN [exc |-> "none", ret |-> {<<"failed_verdicts_with_submissions", <<>>>>}]
             ELSE LET msg_lines == <<FailedHeader>>
                                   \o msg_lines_by_position_from(subs, revs, failed_idxs, 0)
                  IN  [exc |-> "none",
                       ret |-> {<<"failed_verdicts_with_submissions", join(msg_lines)>>}]

\* get_forwarded_vars returning an empty dict when no review is rejected
GraveToCradle_no_key_when_none_failed(subs, revs, breviews) ==
    IF Len(subs) # Len(revs) THEN [exc |-> "AssertionError", ret |-> {}]
    ELSE LET failed_idxs == failed_idxs_from(revs, 0)
         IN  IF Len(failed_idxs) = 0
             THEN [exc |-> "none", ret |-> {}]
             ELSE LET msg_lines == <<FailedHeader>> \o msg_lines_from(subs, revs, failed_idxs, 0)
                  IN  [exc |-> "none",
                       ret |-> {<<"failed_verdicts_with_submissions", join(msg_lines)>>}]

\* GraveToCradle.get_forwarded_vars: [exc, ret]
GraveToCradle_get_forwarded_vars(subs, revs, breviews) ==
    IF Len(subs) # Len(revs) THEN [exc |-> "AssertionError", ret |-> {}]
    ELSE LET failed_idxs == failed_idxs_from(revs, 0)
         IN  IF Len(failed_idxs) = 0
             THEN [exc |-> "none", ret |-> {<<"failed_verdicts_with_submissions", <<>>>>}]
             ELSE LET msg_lines == <<FailedHeader>> \o msg_lines_from(subs, revs, failed_idxs, 0)
                  IN  [exc |-> "none",
                       ret |-> {<<"failed_verdicts_with_submissions", join(msg_lines)>>}]

(***************************************************************************)
(* ReviewLoop.  The methods are operators on the loop's fields, gathered   *)
(* in a record; exc names the exception a method ends with ("none" when    *)
(* it returns).                                                            *)
(***************************************************************************)
Self ==
    [submissions |-> submissions, reviews |-> reviews, comparisons |-> comparisons,
     best_idx |-> best_idx, n_consec_exit_cost |-> n_consec_exit_cost,
     bcalls |-> bcalls, rcalls |-> rcalls, exc |-> "none"]

\* ReviewLoop._n_samples
_n_samples(self) == Len(self.submissions)

\* _n_accepted looking at the newest review only
_n_accepted_newest(self) ==
    IF Len(self.reviews) > 0 /\ self.reviews[Len(self.reviews)].accept THEN 1 ELSE 0

\* ReviewLoop._n_accepted
_n_accepted(self) == Cardinality({i \in 1..Len(self.reviews) : self.reviews[i].accept})

\* _review forgetting to store the review it obtained
_review_not_stored(self, config, oracle) ==
    [self EXCEPT !.rcalls = Append(@, Len(self.submissions) - 1),
                 !.n_consec_exit_cost = 0]

\* _review writing the new result over the review stored before it as well
_review_rewrites_previous(self, config, oracle) ==
    LET newest == self.submissions[Len(self.submissions)]
        r == Reviewer_review(config, newest, oracle)
        called == [self EXCEPT !.rcalls = Append(@, Len(self.submissions) - 1)]
    IN  IF r.exc # "none" THEN [called EXCEPT !.exc = r.exc]
        ELSE LET appended == [called EXCEPT !.reviews =
                                 Append([i \in 1..Len(@) |-> r.result], r.result)]
                 exit_status == get_default_empty(newest.exit_status)
             IN  IF exit_status.kind = "none"
                 THEN [appended EXCEPT !.exc = "AttributeError"]
                 ELSE IF contains(lower(chars(exit_status.s)), chars("exit_cost"))
                 THEN [appended EXCEPT !.n_consec_exit_cost = @ + 1]
                 ELSE [appended EXCEPT !.n_consec_exit_cost = 0]

\* ReviewLoop._review.  Indices are Python's (0-based) in best_idx, in the
\* comparison records and in the histories; sequences are 1-based.
_review(self, config, oracle) ==
    LET newest == self.submissions[Len(self.submissions)]
        r == Reviewer_review(config, newest, oracle)
        called == [self EXCEPT !.rcalls = Append(@, Len(self.submissions) - 1)]
    IN  IF r.exc # "none" THEN [called EXCEPT !.exc = r.exc]
        ELSE LET appended == [called EXCEPT !.reviews = Append(@, r.result)]
                 exit_status == get_default_empty(newest.exit_status)
             IN  IF exit_status.kind = "none"
                 THEN [appended EXCEPT !.exc = "AttributeError"]
                 ELSE IF contains(lower(chars(exit_status.s)), chars("exit_cost"))
                 THEN [appended EXCEPT !.n_consec_exit_cost = @ + 1]
                 ELSE [appended EXCEPT !.n_consec_exit_cost = 0]

\* _compare taking the number of samples for the index of the newest one
_compare_off_by_one(self, config, oracle) ==
    [self EXCEPT !.best_idx = _n_samples(self)]

\* _compare asking the binary reviewer whatever the two verdicts are
_compare_always(self, config, oracle) ==
    LET n == _n_samples(self)
    IN  IF ~config.binary_reviewer THEN [self EXCEPT !.best_idx = n - 1]
        ELSE IF n < 2 THEN self
        ELSE LET cresult == compare_submissions(self.submissions[self.best_idx + 1],
                                                self.submissions[n],
                                                self.reviews[self.best_idx + 1],
                                                self.reviews[Len(self.reviews)], oracle)
                 called == [self EXCEPT !.bcalls =
                               Append(@, [sub1 |-> self.best_idx, sub2 |-> n - 1,
                                          rev1 |-> self.best_idx, rev2 |-> Len(self.reviews) - 1])]
             IN  IF cresult.exc # "none" THEN [called EXCEPT !.exc = cresult.exc]
                 ELSE [called EXCEPT
                         !.comparisons = Append(@, <<n - 2, n - 1, cresult.result>>),
                         !.best_idx = <<self.best_idx, n - 1>>[cresult.result.choice + 1]]

\* _compare keeping the best index when the binary reviewer chose the second
\* submission, and moving it when it chose the first
_compare_choice_swapped(self, config, oracle) ==
    LET n == _n_samples(self)
        best == self.reviews[self.best_idx + 1]
        newest == self.reviews[Len(self.reviews)]
    IN  IF ~config.binary_reviewer THEN [self EXCEPT !.best_idx = n - 1]
        ELSE IF n < 2 THEN self
        ELSE IF best.accept /\ ~newest.accept THEN self
        ELSE IF ~best.accept /\ newest.accept THEN [self EXCEPT !.best_idx = n - 1]
        ELSE LET cresult == compare_submissions(self.submissions[self.best_idx + 1],
                                                self.submissions[n], best, newest, oracle)
                 called == [self EXCEPT !.bcalls =
                               Append(@, [sub1 |-> self.best_idx, sub2 |-> n - 1,
                                          rev1 |-> self.best_idx, rev2 |-> Len(self.reviews) - 1])]
             IN  IF cresult.exc # "none" THEN [called EXCEPT !.exc = cresult.exc]
                 ELSE [called EXCEPT
                         !.comparisons = Append(@, <<n - 2, n - 1, cresult.result>>),
                         !.best_idx = <<n - 1, self.best_idx>>[cresult.result.choice + 1]]

\* _compare without a binary reviewer moving the best index only to an
\* accepted submission
_compare_newest_if_accepted(self, config, oracle) ==
    IF self.reviews[Len(self.reviews)].accept
    THEN [self EXCEPT !.best_idx = _n_samples(self) - 1]
    ELSE self

\* _compare handing the previous submission, not the best one, to the binary reviewer
_compare_previous(self, config, oracle) ==
    LET n == _n_samples(self)
        best == self.reviews[self.best_idx + 1]
        newest == self.reviews[Len(self.reviews)]
    IN  IF ~config.binary_reviewer THEN [self EXCEPT !.best_idx = n - 1]
        ELSE IF n < 2 THEN self
        ELSE IF best.accept /\ ~newest.accept THEN self
        ELSE IF ~best.accept /\ newest.accept THEN [self EXCEPT !.best_idx = n - 1]
        ELSE LET cresult == compare_submissions(self.submissions[n - 1],
                                                self.submissions[n], best, newest, oracle)
                 called == [self EXCEPT !.bcalls =
                               Append(@, [sub1 |-> n - 2, sub2 |-> n - 1,
                                          rev1 |-> self.best_idx, rev2 |-> Len(self.reviews) - 1])]
             IN  IF cresult.exc # "none" THEN [called EXCEPT !.exc = cresult.exc]
                 ELSE [called EXCEPT
                         !.comparisons = Append(@, <<n - 2, n - 1, cresult.result>>),
                         !.best_idx = <<self.best_idx, n - 1>>[cresult.result.choice + 1]]

\* _compare keeping a rejected best when the new submission is accepted
_compare_keeps_rejected_best(self, config, oracle) ==
    LET n == _n_samples(self)
        best == self.reviews[self.best_idx + 1]
        newest == self.reviews[Len(self.reviews)]
    IN  IF ~config.binary_reviewer THEN [self EXCEPT !.best_idx = n - 1]
        ELSE IF n < 2 THEN self
        ELSE IF self.best_idx >= Len(self.reviews) THEN [self EXCEPT !.exc = "IndexError"]
        ELSE IF best.accept /\ ~newest.accept THEN self
        ELSE IF ~best.accept /\ newest.accept THEN self
        ELSE LET sub1 == self.submissions[self.best_idx + 1]
                 sub2 == self.submissions[Len(self.submissions)]
                 cresult == compare_submissions(sub1, sub2, best, newest, oracle)
                 called == [self EXCEPT !.bcalls =
                               Append(@, [sub1 |-> self.best_idx, sub2 |-> n - 1,
                                          rev1 |-> self.best_idx, rev2 |-> Len(self.reviews) - 1])]
             IN  IF cresult.exc # "none" THEN [called EXCEPT !.exc = cresult.exc]
                 ELSE [called EXCEPT
                         !.comparisons = Append(@, <<n - 2, n - 1, cresult.result>>),
                         !.best_idx = <<self.best_idx, n - 1>>[cresult.result.choice + 1]]

\* _compare going to the binary reviewer with a single submission stored
_compare_no_first_return(self, config, oracle) ==
    LET n == _n_samples(self)
        best == self.reviews[self.best_idx + 1]
        newest == self.reviews[Len(self.reviews)]
    IN  IF ~config.binary_reviewer THEN [self EXCEPT !.best_idx = n - 1]
        ELSE IF self.best_idx >= Len(self.reviews) THEN [self EXCEPT !.exc = "IndexError"]
        ELSE IF n >= 2 /\ best.accept /\ ~newest.accept THEN self
        ELSE IF n >= 2 /\ ~best.accept /\ newest.accept THEN [self EXCEPT !.best_idx = n - 1]
        ELSE LET sub1 == self.submissions[self.best_idx + 1]
                 sub2 == self.submissions[Len(self.submissions)]
                 cresult == compare_submissions(sub1, sub2, best, newest, oracle)
                 called == [self EXCEPT !.bcalls =
                               Append(@, [sub1 |-> self.best_idx, sub2 |-> n - 1,
                                          rev1 |-> self.best_idx, rev2 |-> Len(self.reviews) - 1])]
             IN  IF cresult.exc # "none" THEN [called EXCEPT !.exc = cresult.exc]
                 ELSE [called EXCEPT
                         !.comparisons = Append(@, <<n - 2, n - 1, cresult.result>>),
                         !.best_idx = <<self.best_idx, n - 1>>[cresult.result.choice + 1]]

\* _compare keeping no record of the comparison
_compare_no_record(self, config, oracle) ==
    LET n == _n_samples(self)
        best == self.reviews[self.best_idx + 1]
        newest == self.reviews[Len(self.reviews)]
    IN  IF ~config.binary_reviewer THEN [self EXCEPT !.best_idx = n - 1]
        ELSE IF n < 2 THEN self
        ELSE IF self.best_idx >= Len(self.reviews) THEN [self EXCEPT !.exc = "IndexError"]
        ELSE IF best.accept /\ ~newest.accept THEN self
        ELSE IF ~best.accept /\ newest.accept THEN [self EXCEPT !.best_idx = n - 1]
        ELSE LET sub1 == self.submissions[self.best_idx + 1]
                 sub2 == self.submissions[Len(self.submissions)]
                 cresult == compare_submissions(sub1, sub2, best, newest, oracle)
                 called == [self EXCEPT !.bcalls =
                               Append(@, [sub1 |-> self.best_idx, sub2 |-> n - 1,
                                          rev1 |-> self.best_idx, rev2 |-> Len(self.reviews) - 1])]
             IN  IF cresult.exc # "none" THEN [called EXCEPT !.exc = cresult.exc]
                 ELSE [called EXCEPT
                         !.best_idx = <<self.best_idx, n - 1>>[cresult.result.choice + 1]]

\* _compare recording the pair with 1-based indices
_compare_records_one_based(self, config, oracle) ==
    LET n == _n_samples(self)
        best == self.reviews[self.best_idx + 1]
        newest == self.reviews[Len(self.reviews)]
    IN  IF ~config.binary_reviewer THEN [self EXCEPT !.best_idx = n - 1]
        ELSE IF n < 2 THEN self
        ELSE IF self.best_idx >= Len(self.reviews) THEN [self EXCEPT !.exc = "IndexError"]
        ELSE IF best.accept /\ ~newest.accept THEN self
        ELSE IF ~best.accept /\ newest.accept THEN [self EXCEPT !.best_idx = n - 1]
        ELSE LET sub1 == self.submissions[self.best_idx + 1]
                 sub2 == self.submissions[Len(self.submissions)]
                 cresult == compare_submissions(sub1, sub2, best, newest, oracle)
                 called == [self EXCEPT !.bcalls =
                               Append(@, [sub1 |-> self.best_idx, sub2 |-> n - 1,
                                          rev1 |-> self.best_idx, rev2 |-> Len(self.reviews) - 1])]
             IN  IF cresult.exc # "none" THEN [called EXCEPT !.exc = cresult.exc]
                 ELSE [called EXCEPT
                         !.comparisons = Append(@, <<n - 1, n, cresult.result>>),
                         !.best_idx = <<self.best_idx, n - 1>>[cresult.result.choice + 1]]

\* ReviewLoop._compare
_compare(self, config, oracle) ==
    LET n == _n_samples(self)
        best == self.reviews[self.best_idx + 1]
        newest == self.reviews[Len(self.reviews)]
    IN  IF ~config.binary_reviewer THEN [self EXCEPT !.best_idx = n - 1]
        ELSE IF n < 2 THEN self
        ELSE IF self.best_idx >= Len(self.reviews) THEN [self EXCEPT !.exc = "IndexError"]
        ELSE IF best.accept /\ ~newest.accept THEN self
        ELSE IF ~best.accept /\ newest.accept THEN [self EXCEPT !.best_idx = n - 1]
        ELSE LET sub1 == self.submissions[self.best_idx + 1]
                 sub2 == self.submissions[Len(self.submissions)]
                 cresult == compare_submissions(sub1, sub2, best, newest, oracle)
                 called == [self EXCEPT !.bcalls =
                               Append(@, [sub1 |-> self.best_idx, sub2 |-> n - 1,
                                          rev1 |-> self.best_idx, rev2 |-> Len(self.reviews) - 1])]
             IN  IF cresult.exc # "none" THEN [called EXCEPT !.exc = cresult.exc]
                 ELSE [called EXCEPT
                         !.comparisons = Append(@, <<n - 2, n - 1, cresult.result>>),
                         !.best_idx = <<self.best_idx, n - 1>>[cresult.result.choice + 1]]

\* on_submit running the tournament update before the review
on_submit_compare_first(self, config, submission, roracle, coracle) ==
    LET appended == [self EXCEPT !.submissions = Append(@, submission)]
        compared == _compare(appended, config, coracle)
    IN  IF compared.exc # "none" THEN compared
        ELSE _review(compared, config, roracle)

\* ReviewLoop.on_submit
on_submit(self, config, submission, roracle, coracle) ==
    LET appended == [self EXCEPT !.submissions = Append(@, submission)]
        reviewed == _review(appended, config, roracle)
    IN  IF reviewed.exc # "none" THEN reviewed
        ELSE _compare(reviewed, config, coracle)

\* isinstance(self._model, HumanModel) or isinstance(self._model, HumanThoughtModel)
is_human(config) == config.model_kind \in {"HumanModel", "HumanThoughtModel"}

\* retry stopping only once max_samples is exceeded
retry_max_samples_strict(self, config, cost) ==
    LET remaining_budget == config.instance_cost_limit - cost
    IN  IF _n_samples(self) > config.max_samples THEN FALSE
        ELSE IF _n_accepted(self) # 0 /\ _n_samples(self) >= config.min_draws
        THEN FALSE
        ELSE IF _n_accepted(self) >= config.max_accepted_draws /\ config.max_accepted_draws > 0
        THEN FALSE
        ELSE IF self.n_consec_exit_cost >= config.max_n_consec_exit_cost
                /\ config.max_n_consec_exit_cost > 0
        THEN FALSE
        ELSE IF /\ config.min_budget_for_new_attempt > 0
                /\ remaining_budget < config.min_budget_for_new_attempt
                /\ ~is_human(config)
        THEN FALSE
        ELSE TRUE

\* retry looking for an accepted review at the latest submission only
retry_last_accepted(self, config, cost) ==
    LET remaining_budget == config.instance_cost_limit - cost
    IN  IF _n_samples(self) >= config.max_samples THEN FALSE
        ELSE IF /\ Len(self.reviews) > 0
                /\ self.reviews[Len(self.reviews)].accept
                /\ _n_samples(self) >= config.min_draws
        THEN FALSE
        ELSE IF _n_accepted(self) >= config.max_accepted_draws /\ config.max_accepted_draws > 0
        THEN FALSE
        ELSE IF self.n_consec_exit_cost >= config.max_n_consec_exit_cost
                /\ config.max_n_consec_exit_cost > 0
        THEN FALSE
        ELSE IF /\ config.min_budget_for_new_attempt > 0
                /\ remaining_budget < config.min_budget_for_new_attempt
                /\ ~is_human(config)
        THEN FALSE
        ELSE TRUE

\* retry stopping only once more than max_accepted_draws reviews are accepted
retry_accepted_strict(self, config, cost) ==
    LET remaining_budget == config.instance_cost_limit - cost
    IN  IF _n_samples(self) >= config.max_samples THEN FALSE
        ELSE IF _n_accepted(self) # 0 /\ _n_samples(self) >= config.min_draws
        THEN FALSE
        ELSE IF _n_accepted(self) > config.max_accepted_draws /\ config.max_accepted_draws > 0
        THEN FALSE
        ELSE IF self.n_consec_exit_cost >= config.max_n_consec_exit_cost
                /\ config.max_n_consec_exit_cost > 0
        THEN FALSE
        ELSE IF /\ config.min_budget_for_new_attempt > 0
                /\ remaining_budget < config.min_budget_for_new_attempt
                /\ ~is_human(config)
        THEN FALSE
        ELSE TRUE

\* retry stopping only once the counter exceeds max_n_consec_exit_cost
retry_exit_cost_strict(self, config, cost) ==
    LET remaining_budget == config.instance_cost_limit - cost
    IN  IF _n_samples(self) >= config.max_samples THEN FALSE
        ELSE IF _n_accepted(self) # 0 /\ _n_samples(self) >= config.min_draws
        THEN FALSE
        ELSE IF _n_accepted(self) >= config.max_accepted_draws /\ config.max_accepted_draws > 0
        THEN FALSE
        ELSE IF self.n_consec_exit_cost > config.max_n_consec_exit_cost
                /\ config.max_n_consec_exit_cost > 0
        THEN FALSE
        ELSE IF /\ config.min_budget_for_new_attempt > 0
                /\ remaining_budget < config.min_budget_for_new_attempt
                /\ ~is_human(config)
        THEN FALSE
        ELSE TRUE

\* retry applying the budget rule to a human-operated model too
retry_budget_any_model(self, config, cost) ==
    LET remaining_budget == config.instance_cost_limit - cost
    IN  IF _n_samples(self) >= config.max_samples THEN FALSE
        ELSE IF _n_accepted(self) # 0 /\ _n_samples(self) >= config.min_draws
        THEN FALSE
        ELSE IF _n_accepted(self) >= config.max_accepted_draws /\ config.max_accepted_draws > 0
        THEN FALSE
        ELSE IF self.n_consec_exit_cost >= config.max_n_consec_exit_cost
                /\ config.max_n_consec_exit_cost > 0
        THEN FALSE
        ELSE IF /\ config.min_budget_for_new_attempt > 0
                /\ remaining_budget < config.min_budget_for_new_attempt
        THEN FALSE
        ELSE TRUE

\* retry stopping on an accepted review only once min_draws is exceeded
retry_min_draws_strict(self, config, cost) ==
    LET remaining_budget == config.instance_cost_limit - cost
    IN  IF _n_samples(self) >= config.max_samples THEN FALSE
        ELSE IF _n_accepted(self) # 0 /\ _n_samples(self) > config.min_draws
        THEN FALSE
        ELSE IF _n_accepted(self) >= config.max_accepted_draws /\ config.max_accepted_draws > 0
        THEN FALSE
        ELSE IF self.n_consec_exit_cost >= config.max_n_consec_exit_cost
                /\ config.max_n_consec_exit_cost > 0
        THEN FALSE
        ELSE IF /\ config.min_budget_for_new_attempt > 0
                /\ remaining_budget < config.min_budget_for_new_attempt
                /\ ~is_human(config)
        THEN FALSE
        ELSE TRUE

\* ReviewLoop.retry
retry(self, config, cost) ==
    LET remaining_budget == config.instance_cost_limit - cost
    IN  IF _n_samples(self) >= config.max_samples THEN FALSE
        ELSE IF _n_accepted(self) # 0 /\ _n_samples(self) >= config.min_draws THEN FALSE
        ELSE IF _n_accepted(self) >= config.max_accepted_draws /\ config.max_accepted_draws > 0
        THEN FALSE
        ELSE IF self.n_consec_exit_cost >= config.max_n_consec_exit_cost
                /\ config.max_n_consec_exit_cost > 0
        THEN FALSE
        ELSE IF /\ config.min_budget_for_new_attempt > 0
                /\ remaining_budget < config.min_budget_for_new_attempt
                /\ ~is_human(config)
        THEN FALSE
        ELSE TRUE

\* get_best asserting the parity without a binary reviewer as well
get_best_always_asserts(self, config) ==
    IF Len(self.reviews) # Len(self.submissions)
    THEN [exc |-> "AssertionError", ret |-> None]
    ELSE [exc |-> "none", ret |-> self.best_idx]

\* ReviewLoop.get_best: [exc, ret]
get_best(self, config) ==
    IF config.binary_reviewer /\ Len(self.reviews) # Len(self.submissions)
    THEN [exc |-> "AssertionError", ret |-> None]
    ELSE [exc |-> "none", ret |-> self.best_idx]

\* ReviewLoop.get_forwarded_vars: [exc, ret]
get_forwarded_vars(self, config) ==
    IF ~config.gtc THEN [exc |-> "none", ret |-> {}]
    ELSE GraveToCradle_get_forwarded_vars(self.submissions, self.reviews, self.comparisons)

\* on_model_query stopping the attempt only once its cost exceeds the limit
on_model_query_strict(config, attempt_cost) ==
    IF 0 < config.attempt_cost_limit /\ config.attempt_cost_limit < attempt_cost
    THEN "AttemptCostLimitExceededError"
    ELSE "none"

\* ReviewLoop.on_model_query: the exception it ends with
on_model_query(config, attempt_cost) ==
    IF 0 < config.attempt_cost_limit /\ config.attempt_cost_limit <= attempt_cost
    THEN "AttemptCostLimitExceededError"
    ELSE "none"

\* validate refusing max_accepted_draws = min_draws as well
validate_accepted_draws_strict(config) ==
    IF config.min_draws < 1 THEN FALSE
    ELSE IF config.max_samples < 1 THEN FALSE
    ELSE IF config.max_samples < config.min_draws THEN FALSE
    ELSE IF config.max_accepted_draws >= config.min_draws THEN FALSE
    ELSE TRUE

\* ReviewLoopConfig.validate: TRUE when it returns, FALSE when it raises ValueError
validate(config) ==
    IF config.min_draws < 1 THEN FALSE
    ELSE IF config.max_samples < 1 THEN FALSE
    ELSE IF config.max_samples < config.min_draws THEN FALSE
    ELSE IF config.max_accepted_draws > config.min_draws THEN FALSE
    ELSE TRUE

(***************************************************************************)
(* Configurations and inputs.                                              *)
(***************************************************************************)
\* The defaults of ReviewLoopConfig
DefaultMaxSamples == 2
DefaultMinDraws == 1
DefaultMaxAcceptedDraws == 0
DefaultMaxNConsecExitCost == 0
DefaultAttemptCostLimit == 0
DefaultMinBudgetForNewAttempt == 0

\* The loops built with the default settings, with or without a binary reviewer
DefaultConfigs ==
    [binary_reviewer : BOOLEAN, reject_exit_status : {TRUE},
     max_samples : {DefaultMaxSamples}, min_draws : {DefaultMinDraws},
     max_accepted_draws : {DefaultMaxAcceptedDraws},
     max_n_consec_exit_cost : {DefaultMaxNConsecExitCost},
     attempt_cost_limit : {DefaultAttemptCostLimit},
     min_budget_for_new_attempt : {DefaultMinBudgetForNewAttempt},
     gtc : {FALSE},
     model_kind : {"LiteLLMModel"}, instance_cost_limit : {MaxCost}]

\* The draw and budget settings a ReviewLoopConfig can be built with (nothing
\* validates them on construction), on a loop with a binary reviewer
RetryConfigs ==
    [binary_reviewer : {TRUE}, reject_exit_status : {FALSE},
     max_samples : 1..3, min_draws : 1..3, max_accepted_draws : 0..2,
     max_n_consec_exit_cost : {0, 2},
     attempt_cost_limit : {1},
     min_budget_for_new_attempt : {0, 1},
     gtc : {TRUE},
     model_kind : {"LiteLLMModel", "HumanModel"}, instance_cost_limit : {MaxCost}]

\* The default settings with an attempt cost limit that is negative, zero or
\* positive, on a loop with a binary reviewer
QueryConfigs ==
    [binary_reviewer : {TRUE}, reject_exit_status : {TRUE},
     max_samples : {DefaultMaxSamples}, min_draws : {DefaultMinDraws},
     max_accepted_draws : {DefaultMaxAcceptedDraws},
     max_n_consec_exit_cost : {DefaultMaxNConsecExitCost},
     attempt_cost_limit : (-1)..MaxCost,
     min_budget_for_new_attempt : {DefaultMinBudgetForNewAttempt},
     gtc : {FALSE},
     model_kind : {"LiteLLMModel"}, instance_cost_limit : {MaxCost}]

\* The default settings, with or without a binary reviewer and with or without
\* a carrier (gtc_classname set or "")
ReadConfigs ==
    [binary_reviewer : BOOLEAN, reject_exit_status : {TRUE},
     max_samples : {DefaultMaxSamples}, min_draws : {DefaultMinDraws},
     max_accepted_draws : {DefaultMaxAcceptedDraws},
     max_n_consec_exit_cost : {DefaultMaxNConsecExitCost},
     attempt_cost_limit : {DefaultAttemptCostLimit},
     min_budget_for_new_attempt : {DefaultMinBudgetForNewAttempt},
     gtc : BOOLEAN,
     model_kind : {"LiteLLMModel"}, instance_cost_limit : {MaxCost}]

\* A submission, as far as the loop and the reviewers read it: info["exit_status"]
\* and info["submission"]
Submissions ==
    [exit_status : {Absent, None, Str(""), Str("submitted"), Str("submitted (exit_cost)")},
     submission : {Str("p")}]

SlimSubmissions ==
    [exit_status : {Str("submitted"), Str("submitted (exit_cost)")},
     submission : {Str("p")}]

\* What the oracle does when the reviewer queries it
ReviewOracle ==
    { [raises |-> TRUE, text |-> ""],
      [raises |-> FALSE, text |-> "Success\n"],
      [raises |-> FALSE, text |-> "success\nFAIL"] }

SlimReviewOracle ==
    { [raises |-> FALSE, text |-> "success"],
      [raises |-> FALSE, text |-> "fail"] }

\* What the oracle does when the binary reviewer queries it
CompareOracle ==
    { [raises |-> TRUE, text |-> ""],
      [raises |-> FALSE, text |-> "second\nFirst"],
      [raises |-> FALSE, text |-> "Second "] }

SlimCompareOracle ==
    { [raises |-> FALSE, text |-> "second"] }

(***************************************************************************)
(* The state machine: ReviewLoop.__init__, then any call at any time.      *)
(***************************************************************************)
\* ReviewLoop.__init__
InitWith(configs) ==
    /\ cfg \in configs
    /\ submissions = <<>>
    /\ reviews = <<>>
    /\ comparisons = <<>>
    /\ best_idx = 0
    /\ n_consec_exit_cost = 0
    /\ last = [op |-> "__init__", outcome |-> "returned", ret |-> None, arg |-> None]
    /\ pre = [best_idx |-> 0, n_comparisons |-> 0, n_bcalls |-> 0, n_rcalls |-> 0,
              n_samples |-> 0, n_reviews |-> 0, n_consec_exit_cost |-> 0]
    /\ bcalls = <<>>
    /\ rcalls = <<>>
    /\ outcomes = <<>>
    /\ twin = [submissions |-> <<>>, reviews |-> <<>>, comparisons |-> <<>>,
               best_idx |-> 0, n_consec_exit_cost |-> 0,
               outcome |-> "returned", ret |-> None]

Init == InitWith(DefaultConfigs)

InitRetry == InitWith(RetryConfigs)

\* on_submit(submission) on the loop, the oracle doing roracle when the
\* reviewer queries it and coracle when the binary reviewer does
Submit(submission, roracle, coracle) ==
    /\ \E after \in {on_submit(Self, cfg, submission, roracle, coracle)} :
         /\ submissions' = after.submissions
         /\ reviews' = after.reviews
         /\ comparisons' = after.comparisons
         /\ best_idx' = after.best_idx
         /\ n_consec_exit_cost' = after.n_consec_exit_cost
         /\ bcalls' = after.bcalls
         /\ rcalls' = after.rcalls
         /\ last' = [op |-> "on_submit",
                     outcome |-> IF after.exc = "none" THEN "returned" ELSE after.exc,
                     ret |-> None, arg |-> submission]
         /\ outcomes' = Append(outcomes,
                               IF after.exc = "none" THEN "returned" ELSE after.exc)
    /\ pre' = [best_idx |-> best_idx, n_comparisons |-> Len(comparisons),
               n_bcalls |-> Len(bcalls), n_rcalls |-> Len(rcalls),
               n_samples |-> Len(submissions), n_reviews |-> Len(reviews),
               n_consec_exit_cost |-> n_consec_exit_cost]
    /\ UNCHANGED cfg

\* A call of on_submit
OnSubmit(subs, roracles, coracles) ==
    /\ Len(submissions) < MaxSubs
    /\ \E submission \in subs, roracle \in roracles, coracle \in coracles :
         Submit(submission, roracle, coracle)
    /\ UNCHANGED twin

\* A call of retry; instance_cost is the self._model.stats.instance_cost it reads
Retry ==
    /\ \E instance_cost \in 0..MaxCost :
         last' = [op |-> "retry", outcome |-> "returned",
                  ret |-> retry(Self, cfg, instance_cost), arg |-> instance_cost]
    /\ UNCHANGED <<cfg, submissions, reviews, comparisons, best_idx,
                   n_consec_exit_cost, pre, bcalls, rcalls, outcomes, twin>>

\* A call of a get_best that moves the best index to the newest submission
GetBest_moves_best ==
    /\ LET r == get_best(Self, cfg)
       IN  last' = [op |-> "get_best",
                    outcome |-> IF r.exc = "none" THEN "returned" ELSE r.exc,
                    ret |-> r.ret, arg |-> None]
    /\ best_idx' = IF Len(submissions) > 0 THEN Len(submissions) - 1 ELSE 0
    /\ UNCHANGED <<cfg, submissions, reviews, comparisons,
                   n_consec_exit_cost, pre, bcalls, rcalls, outcomes, twin>>

\* A call of get_best
GetBest ==
    /\ LET r == get_best(Self, cfg)
       IN  last' = [op |-> "get_best",
                    outcome |-> IF r.exc = "none" THEN "returned" ELSE r.exc,
                    ret |-> r.ret, arg |-> None]
    /\ UNCHANGED <<cfg, submissions, reviews, comparisons, best_idx,
                   n_consec_exit_cost, pre, bcalls, rcalls, outcomes, twin>>

\* A call of get_forwarded_vars
GetForwardedVars ==
    /\ \E r \in {get_forwarded_vars(Self, cfg)} :
         last' = [op |-> "get_forwarded_vars",
                  outcome |-> IF r.exc = "none" THEN "returned" ELSE r.exc,
                  ret |-> r.ret, arg |-> None]
    /\ UNCHANGED <<cfg, submissions, reviews, comparisons, best_idx,
                   n_consec_exit_cost, pre, bcalls, rcalls, outcomes, twin>>

\* A call of on_model_query, with the running attempt's cost so far
OnModelQuery ==
    /\ \E attempt_cost \in 0..(MaxCost + 1) :
         LET exc == on_model_query(cfg, attempt_cost)
         IN  last' = [op |-> "on_model_query",
                      outcome |-> IF exc = "none" THEN "returned" ELSE exc,
                      ret |-> None, arg |-> attempt_cost]
    /\ UNCHANGED <<cfg, submissions, reviews, comparisons, best_idx,
                   n_consec_exit_cost, pre, bcalls, rcalls, outcomes, twin>>

Next ==
    \/ OnSubmit(Submissions, ReviewOracle, CompareOracle)
    \/ Retry
    \/ GetBest
    \/ OnModelQuery

Spec == Init /\ [][Next]_vars

\* The calls the run loop makes: on_submit, then retry
NextRetry ==
    \/ OnSubmit(SlimSubmissions, SlimReviewOracle, SlimCompareOracle)
    \/ Retry

SpecRetry == InitRetry /\ [][NextRetry]_vars

\* The calls made while attempts run: on_model_query on every query of the
\* attempt's model, on_submit when an attempt ends
InitQuery == InitWith(QueryConfigs)

NextQuery ==
    \/ OnSubmit(SlimSubmissions, SlimReviewOracle, SlimCompareOracle)
    \/ OnModelQuery

SpecQuery == InitQuery /\ [][NextQuery]_vars

\* The calls made between attempts: on_submit on the attempt that has ended,
\* then the three queries, in any order and any number of times
InitRead == InitWith(ReadConfigs)

NextRead ==
    \/ OnSubmit(SlimSubmissions, ReviewOracle, SlimCompareOracle)
    \/ Retry
    \/ GetBest
    \/ GetForwardedVars

SpecRead == InitRead /\ [][NextRead]_vars

(***************************************************************************)
(* Two loops built from the same configuration; every call is made on      *)
(* both, with the same argument, the same oracle responses and the same    *)
(* sampled cost.                                                           *)
(***************************************************************************)
\* The fields of the second loop
TwinSelf ==
    [submissions |-> twin.submissions, reviews |-> twin.reviews,
     comparisons |-> twin.comparisons, best_idx |-> twin.best_idx,
     n_consec_exit_cost |-> twin.n_consec_exit_cost,
     bcalls |-> <<>>, rcalls |-> <<>>, exc |-> "none"]

\* The second loop after a call that left it as self and ended with exc and ret
TwinAfter(self, exc, ret) ==
    [submissions |-> self.submissions, reviews |-> self.reviews,
     comparisons |-> self.comparisons, best_idx |-> self.best_idx,
     n_consec_exit_cost |-> self.n_consec_exit_cost,
     outcome |-> IF exc = "none" THEN "returned" ELSE exc, ret |-> ret]

\* on_submit on two loops whose _submissions is one list they share (a class
\* attribute): the second loop appends to the list the first has appended to
TwinOnSubmit_shared_submissions(subs, roracles, coracles) ==
    /\ Len(submissions) < MaxSubs
    /\ \E submission \in subs, roracle \in roracles, coracle \in coracles :
         /\ Submit(submission, roracle, coracle)
         /\ \E after \in {on_submit([TwinSelf EXCEPT !.submissions = Append(@, submission)],
                                     cfg, submission, roracle, coracle)} :
                twin' = TwinAfter(after, after.exc, None)

\* A call of on_submit on each of the two loops
TwinOnSubmit(subs, roracles, coracles) ==
    /\ Len(submissions) < MaxSubs
    /\ \E submission \in subs, roracle \in roracles, coracle \in coracles :
         /\ Submit(submission, roracle, coracle)
         /\ \E after \in {on_submit(TwinSelf, cfg, submission, roracle, coracle)} :
                twin' = TwinAfter(after, after.exc, None)

\* A call of retry on each of the two loops
TwinRetry ==
    /\ \E instance_cost \in 0..MaxCost :
         /\ last' = [op |-> "retry", outcome |-> "returned",
                     ret |-> retry(Self, cfg, instance_cost), arg |-> instance_cost]
         /\ twin' = TwinAfter(TwinSelf, "none", retry(TwinSelf, cfg, instance_cost))
    /\ UNCHANGED <<cfg, submissions, reviews, comparisons, best_idx,
                   n_consec_exit_cost, pre, bcalls, rcalls, outcomes>>

\* A call of get_best on each of the two loops
TwinGetBest ==
    /\ LET r == get_best(Self, cfg)
           t == get_best(TwinSelf, cfg)
       IN  /\ last' = [op |-> "get_best",
                       outcome |-> IF r.exc = "none" THEN "returned" ELSE r.exc,
                       ret |-> r.ret, arg |-> None]
           /\ twin' = TwinAfter(TwinSelf, t.exc, t.ret)
    /\ UNCHANGED <<cfg, submissions, reviews, comparisons, best_idx,
                   n_consec_exit_cost, pre, bcalls, rcalls, outcomes>>

NextTwin ==
    \/ TwinOnSubmit(Submissions, ReviewOracle, CompareOracle)
    \/ TwinRetry
    \/ TwinGetBest

SpecTwin == Init /\ [][NextTwin]_vars

(***************************************************************************)
(* Reviewer.review and Reviewer.interpret on their own: any reviewer       *)
(* configuration and any submission, then the calls.                       *)
(***************************************************************************)
\* The loops with the default settings and no binary reviewer, whose reviewer
\* is configured either way
ReviewerConfigs ==
    [binary_reviewer : {FALSE}, reject_exit_status : BOOLEAN,
     max_samples : {DefaultMaxSamples}, min_draws : {DefaultMinDraws},
     max_accepted_draws : {DefaultMaxAcceptedDraws},
     max_n_consec_exit_cost : {DefaultMaxNConsecExitCost},
     attempt_cost_limit : {DefaultAttemptCostLimit},
     min_budget_for_new_attempt : {DefaultMinBudgetForNewAttempt},
     gtc : {FALSE},
     model_kind : {"LiteLLMModel"}, instance_cost_limit : {MaxCost}]

\* info["exit_status"] of a reviewed submission
ReviewedSubmissions ==
    [exit_status : {Absent, None, Str(""), Str("submitted"), Str(" submitted\n"),
                    Str("Submitted"), Str("submitted (exit_cost)"), Str("exit_cost")},
     submission : {Str("p")}]

\* The texts the oracle answers with
Responses ==
    {"success", "fail", "Success\n", "success\nFAIL", "", "SUCCESS\n \n",
     "fail\nsuccess  ", " \n", "unsure", "fail, no success"}

ReviewerOracle ==
    {[raises |-> TRUE, text |-> ""]} \cup {[raises |-> FALSE, text |-> t] : t \in Responses}

InitReviewer ==
    /\ cfg \in ReviewerConfigs
    /\ submissions \in {<<submission>> : submission \in ReviewedSubmissions}
    /\ reviews = <<>>
    /\ comparisons = <<>>
    /\ best_idx = 0
    /\ n_consec_exit_cost = 0
    /\ last = [op |-> "__init__", outcome |-> "returned", ret |-> None, arg |-> None]
    /\ pre = [best_idx |-> 0, n_comparisons |-> 0, n_bcalls |-> 0, n_rcalls |-> 0,
              n_samples |-> 0, n_reviews |-> 0, n_consec_exit_cost |-> 0]
    /\ bcalls = <<>>
    /\ rcalls = <<>>
    /\ outcomes = <<>>
    /\ twin = [submissions |-> <<>>, reviews |-> <<>>, comparisons |-> <<>>,
               best_idx |-> 0, n_consec_exit_cost |-> 0,
               outcome |-> "returned", ret |-> None]

\* A call of Reviewer.review on the submission; last.ret is [exc, queried, result]
Review ==
    /\ \E oracle \in ReviewerOracle :
         \E r \in {Reviewer_review(cfg, submissions[1], oracle)} :
             last' = [op |-> "review",
                      outcome |-> IF r.exc = "none" THEN "returned" ELSE r.exc,
                      ret |-> r, arg |-> oracle]
    /\ UNCHANGED <<cfg, submissions, reviews, comparisons, best_idx,
                   n_consec_exit_cost, pre, bcalls, rcalls, outcomes, twin>>

\* A call of Reviewer.interpret on a response
Interpret ==
    /\ \E response \in Responses :
         last' = [op |-> "interpret", outcome |-> "returned",
                  ret |-> Reviewer_interpret(response), arg |-> response]
    /\ UNCHANGED <<cfg, submissions, reviews, comparisons, best_idx,
                   n_consec_exit_cost, pre, bcalls, rcalls, outcomes, twin>>

NextReviewer ==
    \/ Review
    \/ Interpret

SpecReviewer == InitReviewer /\ [][NextReviewer]_vars

\* The driver of the loop (AcpServer._run_retry_agent): on_submit after each
\* finished attempt, then retry(), and a new attempt only when retry() returned
\* true.  An exception of on_submit leaves the function: nothing in it catches.
\* Every attempt finishes and the oracle answers every query.
DriverConfigs == {c \in RetryConfigs : validate(c)}

\* agent._agent.info of a finished attempt
DriverSubmissions ==
    [exit_status : {None, Str("submitted"), Str("submitted (exit_cost)")},
     submission : {Str("p")}]

InitDriver == InitWith(DriverConfigs)

\* The attempt is done: agent._rloop.on_submit(ReviewSubmission(...))
DriverOnSubmit ==
    /\ last.op = "__init__" \/ (last.op = "retry" /\ last.ret = TRUE)
    /\ OnSubmit(DriverSubmissions, SlimReviewOracle, SlimCompareOracle)

\* if agent._rloop.retry(): agent._next_attempt()
DriverRetry ==
    /\ last.op = "on_submit" /\ last.outcome = "returned"
    /\ Retry

NextDriver ==
    \/ DriverOnSubmit
    \/ DriverRetry

\* The loop is sequential and every attempt and call terminates, so the driver
\* takes its next step whenever it has one.
SpecDriver == InitDriver /\ [][NextDriver]_vars /\ WF_vars(NextDriver)

(***************************************************************************)
(* BinaryReviewer.compare_submissions and BinaryReviewer.interpret on      *)
(* their own: any two review objects (a ReviewerResult or None each), then *)
(* the calls.                                                              *)
(***************************************************************************)
\* rev1 and rev2: ReviewerResult | None
ComparedReviews ==
    {[kind |-> "review", accept |-> a] : a \in BOOLEAN} \cup {[kind |-> "none", accept |-> FALSE]}

\* The texts the oracle answers the binary reviewer with
BinaryResponses ==
    {"first", "second", "second\nFirst", "Second ", "", " \n", "unsure",
     "first\nSECOND\n \n", "second or first"}

BinaryOracle ==
    {[raises |-> TRUE, text |-> ""]} \cup {[raises |-> FALSE, text |-> t] : t \in BinaryResponses}

InitBinary ==
    /\ cfg \in {c \in DefaultConfigs : c.binary_reviewer}
    /\ submissions \in {<<sub1, sub2>> : sub1 \in SlimSubmissions, sub2 \in SlimSubmissions}
    /\ reviews \in {<<rev1, rev2>> : rev1 \in ComparedReviews, rev2 \in ComparedReviews}
    /\ comparisons = <<>>
    /\ best_idx = 0
    /\ n_consec_exit_cost = 0
    /\ last = [op |-> "__init__", outcome |-> "returned", ret |-> None, arg |-> None]
    /\ pre = [best_idx |-> 0, n_comparisons |-> 0, n_bcalls |-> 0, n_rcalls |-> 0,
              n_samples |-> 0, n_reviews |-> 0, n_consec_exit_cost |-> 0]
    /\ bcalls = <<>>
    /\ rcalls = <<>>
    /\ outcomes = <<>>
    /\ twin = [submissions |-> <<>>, reviews |-> <<>>, comparisons |-> <<>>,
               best_idx |-> 0, n_consec_exit_cost |-> 0,
               outcome |-> "returned", ret |-> None]

\* A call of BinaryReviewer.compare_submissions on the two submissions and the
\* two review objects; last.ret is [exc, queried, result]
Compare ==
    /\ \E oracle \in BinaryOracle :
         \E r \in {compare_submissions(submissions[1], submissions[2],
                                       reviews[1], reviews[2], oracle)} :
             last' = [op |-> "compare_submissions",
                      outcome |-> IF r.exc = "none" THEN "returned" ELSE r.exc,
                      ret |-> r, arg |-> oracle]
    /\ UNCHANGED <<cfg, submissions, reviews, comparisons, best_idx,
                   n_consec_exit_cost, pre, bcalls, rcalls, outcomes, twin>>

\* A call of BinaryReviewer.interpret on a response
BinaryInterpret ==
    /\ \E response \in BinaryResponses :
         last' = [op |-> "interpret", outcome |-> "returned",
                  ret |-> BinaryReviewer_interpret(response), arg |-> response]
    /\ UNCHANGED <<cfg, submissions, reviews, comparisons, best_idx,
                   n_consec_exit_cost, pre, bcalls, rcalls, outcomes, twin>>

NextBinary ==
    \/ Compare
    \/ BinaryInterpret

SpecBinary == InitBinary /\ [][NextBinary]_vars

(***************************************************************************)
(* GraveToCradle.get_forwarded_vars on its own: any list of submissions    *)
(* and any list of reviews, then the call.                                 *)
(***************************************************************************)
\* The lists of at most n elements of S
SeqsUpTo(S, n) == {<<>>} \cup UNION {[1..k -> S] : k \in 1..n}

\* info["submission"] of a carried submission: absent, None, "" or a final answer
CarriedSubmissions ==
    [exit_status : {Str("submitted")},
     submission : {Absent, None, Str(""), Str("p"), Str("q")}]

CarriedReviews == [accept : BOOLEAN, output : {"fail", "wrong"}, messages : {<<>>}]

InitCarrier ==
    /\ cfg \in {c \in ReadConfigs : c.gtc /\ ~c.binary_reviewer}
    /\ submissions \in SeqsUpTo(CarriedSubmissions, MaxCarried)
    /\ reviews \in SeqsUpTo(CarriedReviews, MaxCarried)
    /\ comparisons = <<>>
    /\ best_idx = 0
    /\ n_consec_exit_cost = 0
    /\ last = [op |-> "__init__", outcome |-> "returned", ret |-> None, arg |-> None]
    /\ pre = [best_idx |-> 0, n_comparisons |-> 0, n_bcalls |-> 0, n_rcalls |-> 0,
              n_samples |-> 0, n_reviews |-> 0, n_consec_exit_cost |-> 0]
    /\ bcalls = <<>>
    /\ rcalls = <<>>
    /\ outcomes = <<>>
    /\ twin = [submissions |-> <<>>, reviews |-> <<>>, comparisons |-> <<>>,
               best_idx |-> 0, n_consec_exit_cost |-> 0,
               outcome |-> "returned", ret |-> None]

\* A call of GraveToCradle.get_forwarded_vars on the three lists
Forward ==
    /\ \E r \in {GraveToCradle_get_forwarded_vars(submissions, reviews, comparisons)} :
         last' = [op |-> "forward",
                  outcome |-> IF r.exc = "none" THEN "returned" ELSE r.exc,
                  ret |-> r.ret, arg |-> None]
    /\ UNCHANGED <<cfg, submissions, reviews, comparisons, best_idx,
                   n_consec_exit_cost, pre, bcalls, rcalls, outcomes, twin>>

SpecCarrier == InitCarrier /\ [][Forward]_vars

(***************************************************************************)
(* ReviewLoopConfig.validate on its own: any configuration, valid or not,  *)
(* then the call.                                                          *)
(***************************************************************************)
ValidatedConfigs ==
    [binary_reviewer : {TRUE}, reject_exit_status : {TRUE},
     max_samples : (-1)..3, min_draws : (-1)..3, max_accepted_draws : (-1)..3,
     max_n_consec_exit_cost : {0, 2},
     attempt_cost_limit : {0, 1},
     min_budget_for_new_attempt : {0, 1},
     gtc : {FALSE},
     model_kind : {"LiteLLMModel"}, instance_cost_limit : {MaxCost}]

InitValidate == InitWith(ValidatedConfigs)

\* A call of config.validate()
Validate ==
    /\ last' = [op |-> "validate",
                outcome |-> IF validate(cfg) THEN "returned" ELSE "ValueError",
                ret |-> None, arg |-> None]
    /\ UNCHANGED <<cfg, submissions, reviews, comparisons, best_idx,
                   n_consec_exit_cost, pre, bcalls, rcalls, outcomes, twin>>

NextValidate == Validate

SpecValidate == InitValidate /\ [][NextValidate]_vars

(***************************************************************************)
(* TrajectoryFormatter.  A formatter is the record of its settings, a      *)
(* step the record of its action, observation and response.  The text it   *)
(* renders is a str made of pieces, as the carrier's.                      *)
(***************************************************************************)
\* The marker of a failed edit, and what stands for an omitted observation
FailedEditMarker == "Your proposed edit has introduced new syntax error(s)"

OutputOmitted == "[Output omitted]"

\* any(action.startswith(f) for f in prefixes)
startswith_any(action, prefixes) ==
    \E k \in 1..Len(prefixes) : startswith(action, chars(prefixes[k]))

\* _include_step comparing the action as it is, untrimmed
_include_step_untrimmed(formatter, item) ==
    LET action == chars(item.action)
    IN  IF startswith_any(action, formatter.traj_filter) THEN FALSE
        ELSE IF /\ formatter.filter_failed_edits
                /\ contains(chars(item.observation), chars(FailedEditMarker))
             THEN FALSE
        ELSE TRUE

\* TrajectoryFormatter._include_step
_include_step(formatter, item) ==
    LET action == strip(chars(item.action))
    IN  IF startswith_any(action, formatter.traj_filter) THEN FALSE
        ELSE IF /\ formatter.filter_failed_edits
                /\ contains(chars(item.observation), chars(FailedEditMarker))
             THEN FALSE
        ELSE TRUE

\* _include_step_output with a window that is one step wider
_include_step_output_wide(formatter, item, i_step, n_steps) ==
    IF /\ formatter.only_show_last_n_output > 0
       /\ i_step < n_steps - formatter.only_show_last_n_output - 1
    THEN FALSE
    ELSE LET action == strip(chars(item.action))
         IN  IF startswith_any(action, formatter.traj_output_filter) THEN FALSE
             ELSE TRUE

\* TrajectoryFormatter._include_step_output
_include_step_output(formatter, item, i_step, n_steps) ==
    IF /\ formatter.only_show_last_n_output > 0
       /\ i_step < n_steps - formatter.only_show_last_n_output
    THEN FALSE
    ELSE LET action == strip(chars(item.action))
         IN  IF startswith_any(action, formatter.traj_output_filter) THEN FALSE
             ELSE TRUE

\* Template(traj_item_template).render(**step, ...), for the default template
render(step) == <<"Model: ", step.response, "\n\nObservation: ", step.observation>>

\* TrajectoryFormatter._format_trajectory_step: the str it returns and the
\* step it was handed, as the call leaves it (it works on a deep copy)
_format_trajectory_step(formatter, step, i_step, n_steps) ==
    LET copy == step
        shown == IF ~_include_step_output(formatter, copy, i_step, n_steps)
                 THEN [copy EXCEPT !.observation = OutputOmitted]
                 ELSE copy
    IN  [ret |-> render(shown), step |-> step]

\* TrajectoryFormatter.format_trajectory: the str it returns and the
\* trajectory it was handed, as the call leaves it.  traj_messages holds the
\* places (1-based) in the trajectory of the steps that are kept.
format_trajectory(formatter, trajectory) ==
    LET traj_messages == SelectSeq([i \in 1..Len(trajectory) |-> i],
                                   LAMBDA i : _include_step(formatter, trajectory[i]))
        n_steps == Len(traj_messages)
        formatted == [k \in 1..n_steps |->
                         _format_trajectory_step(formatter, trajectory[traj_messages[k]],
                                                 k - 1, n_steps)]
    IN  [ret |-> join([k \in 1..n_steps |-> formatted[k].ret]),
         trajectory |-> [i \in 1..Len(trajectory) |->
                            IF \E k \in 1..n_steps : traj_messages[k] = i
                            THEN formatted[CHOOSE k \in 1..n_steps : traj_messages[k] = i].step
                            ELSE trajectory[i]]]

(***************************************************************************)
(* TrajectoryFormatter.format_trajectory on its own: a formatter and a     *)
(* trajectory of at most MaxSteps steps, then the call.                    *)
(***************************************************************************)
Formatters ==
    [traj_filter : {<<>>, <<"rm", "ls">>},
     traj_output_filter : {<<>>, <<"rm", "ls">>},
     filter_failed_edits : BOOLEAN,
     only_show_last_n_output : 0..2]

Steps ==
    [action : {" ls\n", "cat"},
     observation : {"ok", "E: Your proposed edit has introduced new syntax error(s)."},
     response : {"first", "second"}]

InitFormatter ==
    /\ cfg \in {c \in DefaultConfigs : ~c.binary_reviewer}
    /\ submissions = <<>>
    /\ reviews = <<>>
    /\ comparisons = <<>>
    /\ best_idx = 0
    /\ n_consec_exit_cost = 0
    /\ \E formatter \in Formatters, trajectory \in SeqsUpTo(Steps, MaxSteps) :
         last = [op |-> "__init__", outcome |-> "returned", ret |-> None,
                 arg |-> [formatter |-> formatter, given |-> trajectory,
                          trajectory |-> trajectory]]
    /\ pre = [best_idx |-> 0, n_comparisons |-> 0, n_bcalls |-> 0, n_rcalls |-> 0,
              n_samples |-> 0, n_reviews |-> 0, n_consec_exit_cost |-> 0]
    /\ bcalls = <<>>
    /\ rcalls = <<>>
    /\ outcomes = <<>>
    /\ twin = [submissions |-> <<>>, reviews |-> <<>>, comparisons |-> <<>>,
               best_idx |-> 0, n_consec_exit_cost |-> 0,
               outcome |-> "returned", ret |-> None]

\* A call of formatter.format_trajectory on the trajectory as it is now;
\* last.arg keeps the trajectory as it was handed and as the call leaves it
FormatTrajectory ==
    /\ \E r \in {format_trajectory(last.arg.formatter, last.arg.trajectory)} :
         last' = [op |-> "format_trajectory", outcome |-> "returned", ret |-> r.ret,
                  arg |-> [formatter |-> last.arg.formatter,
                           given |-> last.arg.trajectory,
                           trajectory |-> r.trajectory]]
    /\ UNCHANGED <<cfg, submissions, reviews, comparisons, best_idx,
                   n_consec_exit_cost, pre, bcalls, rcalls, outcomes, twin>>

NextFormatter == FormatTrajectory

SpecFormatter == InitFormatter /\ [][NextFormatter]_vars

(***************************************************************************)
(* Properties.                                                             *)
(***************************************************************************)
\* The last on_submit call returned (it did not raise)
SubmitReturned == Len(outcomes) > 0 /\ outcomes[Len(outcomes)] = "returned"

\* No oracle call made so far has raised: every one returned an output
OraclesAnswered == \A i \in 1..Len(outcomes) : outcomes[i] # "OracleError"

\* The verdicts the tournament update of the last on_submit has read
BestVerdict == reviews[pre.best_idx + 1].accept

NewestVerdict == reviews[Len(reviews)].accept

\* The last on_submit ran the tournament update on at least two submissions
Tournament == cfg.binary_reviewer /\ SubmitReturned /\ Len(submissions) >= 2

C2_Original == 0 <= best_idx /\ best_idx < Len(submissions)

\* C2, amended: once a submission is stored, the best index is an index of the
\* submission list (with no submission stored it is 0).
C2_BestInRange ==
    /\ Len(submissions) >= 1 => (0 <= best_idx /\ best_idx < Len(submissions))
    /\ Len(submissions) = 0 => best_idx = 0

C2_Witness ==
    /\ cfg.binary_reviewer
    /\ Len(submissions) = 3
    /\ best_idx = 2
    /\ pre.best_idx = 0

\* C3: with a binary reviewer and at least two submissions, an on_submit that
\* finds the verdict of the best and the verdict of the new submission to differ
\* does not call the binary reviewer and appends no comparison record; the best
\* index stays when the best was accepted, and becomes the newest index when
\* the new submission was.
C3_VerdictsDiffer ==
    (Tournament /\ BestVerdict # NewestVerdict) =>
        /\ Len(bcalls) = pre.n_bcalls
        /\ Len(comparisons) = pre.n_comparisons
        /\ best_idx = IF BestVerdict THEN pre.best_idx ELSE Len(submissions) - 1

C3_Witness ==
    /\ Tournament
    /\ Len(submissions) = 3 /\ Len(reviews) = 3
    /\ ~reviews[1].accept /\ ~reviews[2].accept /\ reviews[3].accept
    /\ pre.best_idx = 0
    /\ best_idx = 2
    /\ Len(bcalls) = 1

\* C4: with a binary reviewer and at least two submissions, an on_submit that
\* finds the best and the new submission to have the same verdict calls the
\* binary reviewer exactly once, with the submission at the best index first and
\* the newest one second; afterwards the best index is the old one if the
\* choice is 0 and the newest index if the choice is 1.
C4_VerdictsAgree ==
    (Tournament /\ BestVerdict = NewestVerdict) =>
        /\ Len(bcalls) = pre.n_bcalls + 1
        /\ bcalls[Len(bcalls)].sub1 = pre.best_idx
        /\ bcalls[Len(bcalls)].sub2 = Len(submissions) - 1
        /\ Len(comparisons) = pre.n_comparisons + 1
        /\ comparisons[Len(comparisons)][3].choice \in {0, 1}
        /\ best_idx = IF comparisons[Len(comparisons)][3].choice = 0
                      THEN pre.best_idx ELSE Len(submissions) - 1

C4_Witness ==
    /\ Tournament
    /\ Len(submissions) = 3 /\ Len(reviews) = 3
    /\ BestVerdict /\ NewestVerdict
    /\ pre.best_idx = 0
    /\ comparisons[Len(comparisons)][3].choice = 1
    /\ best_idx = 2

\* C5: with no binary reviewer, get_best called after an on_submit that returned
\* gives the index of the last submission, whatever the verdicts.
C5_MostRecent ==
    (~cfg.binary_reviewer /\ SubmitReturned) =>
        /\ best_idx = Len(submissions) - 1
        /\ last.op = "get_best" =>
               (last.outcome = "returned" /\ last.ret = Len(submissions) - 1)

C5_Witness ==
    /\ ~cfg.binary_reviewer
    /\ SubmitReturned
    /\ Len(submissions) = 2 /\ Len(reviews) = 2
    /\ reviews[1].accept /\ ~reviews[2].accept
    /\ last.op = "get_best" /\ last.outcome = "returned"
    /\ last.ret = 1

\* C6: every call of the binary reviewer gets the submission at the best index
\* of that moment first and the submission just appended second, one on_submit
\* calls it at most once, and no pair of submissions is compared twice.
C6_BestAgainstNewest ==
    /\ Len(bcalls) \in {pre.n_bcalls, pre.n_bcalls + 1}
    /\ Len(bcalls) = pre.n_bcalls + 1 =>
           /\ bcalls[Len(bcalls)].sub1 = pre.best_idx
           /\ bcalls[Len(bcalls)].sub2 = Len(submissions) - 1
           /\ pre.n_samples = Len(submissions) - 1
    /\ \A j, k \in 1..Len(bcalls) :
           j < k => /\ bcalls[j].sub2 < bcalls[k].sub2
                    /\ <<bcalls[j].sub1, bcalls[j].sub2>> # <<bcalls[k].sub1, bcalls[k].sub2>>

C6_Witness ==
    /\ Len(bcalls) = 2
    /\ bcalls[1].sub1 = 0 /\ bcalls[1].sub2 = 1
    /\ bcalls[2].sub1 = 0 /\ bcalls[2].sub2 = 2

\* C7 as stated: every comparison record holds the best index held before the
\* comparison and the index of the newest submission, which are the indices of
\* the two submissions handed to the binary reviewer.
C7_RecordNamesCompared ==
    Len(comparisons) = pre.n_comparisons + 1 =>
        /\ comparisons[Len(comparisons)][1] = pre.best_idx
        /\ comparisons[Len(comparisons)][2] = Len(submissions) - 1
        /\ comparisons[Len(comparisons)][1] = bcalls[Len(bcalls)].sub1
        /\ comparisons[Len(comparisons)][2] = bcalls[Len(bcalls)].sub2

\* The number of accepted reviews and the stop rules of retry, as the
\* specification words them; retry's last.arg is the cost spent it has sampled
NumAccepted == Cardinality({i \in 1..Len(reviews) : reviews[i].accept})

HardCapRule == Len(submissions) >= cfg.max_samples

MinDrawsRule == NumAccepted > 0 /\ Len(submissions) >= cfg.min_draws

ExitCostRule ==
    0 < cfg.max_n_consec_exit_cost /\ cfg.max_n_consec_exit_cost <= n_consec_exit_cost

BudgetRule ==
    /\ cfg.min_budget_for_new_attempt > 0
    /\ cfg.instance_cost_limit - last.arg < cfg.min_budget_for_new_attempt
    /\ cfg.model_kind \notin {"HumanModel", "HumanThoughtModel"}

\* C8: whenever there are at least max_samples submissions, retry returns false,
\* whatever the configuration (valid or not), the verdicts, the counter, the
\* remaining budget and the kind of model.
C8_HardCap ==
    (last.op = "retry" /\ Len(submissions) >= cfg.max_samples) => last.ret = FALSE

C8_Witness ==
    /\ last.op = "retry"
    /\ validate(cfg)
    /\ cfg.max_samples = 2
    /\ Len(submissions) = 2
    /\ ~MinDrawsRule /\ ~ExitCostRule /\ ~BudgetRule
    /\ cfg.max_accepted_draws = 0
    /\ last.ret = FALSE

\* C9: whenever some stored review is accepted (any one, not only the latest) and
\* there are at least min_draws submissions, retry returns false.
C9_AcceptedAndMinDraws ==
    (/\ last.op = "retry"
     /\ \E i \in 1..Len(reviews) : reviews[i].accept
     /\ Len(submissions) >= cfg.min_draws) => last.ret = FALSE

C9_Witness ==
    /\ last.op = "retry"
    /\ validate(cfg)
    /\ cfg.max_samples = 3 /\ cfg.min_draws = 2 /\ cfg.max_accepted_draws = 0
    /\ Len(submissions) = 2 /\ Len(reviews) = 2
    /\ reviews[1].accept /\ ~reviews[2].accept
    /\ ~ExitCostRule /\ ~BudgetRule
    /\ last.ret = FALSE

\* C10: when max_accepted_draws > 0 and at least max_accepted_draws reviews are
\* accepted, retry returns false, also below min_draws submissions; when
\* max_accepted_draws is 0 and no other stop rule matches, retry returns true.
C10_MaxAcceptedDraws ==
    last.op = "retry" =>
        /\ (cfg.max_accepted_draws > 0 /\ NumAccepted >= cfg.max_accepted_draws)
               => last.ret = FALSE
        /\ (/\ cfg.max_accepted_draws = 0
            /\ ~HardCapRule /\ ~MinDrawsRule /\ ~ExitCostRule /\ ~BudgetRule)
               => last.ret = TRUE

C10_Witness ==
    /\ last.op = "retry"
    /\ validate(cfg)
    /\ cfg.max_samples = 3 /\ cfg.min_draws = 3 /\ cfg.max_accepted_draws = 2
    /\ Len(submissions) = 2
    /\ NumAccepted = 2
    /\ ~ExitCostRule /\ ~BudgetRule
    /\ last.ret = FALSE

\* The exit status of the submission at Python index i contains "exit_cost"
CarriesExitCost(i) ==
    /\ submissions[i + 1].exit_status.kind = "str"
    /\ contains(chars(submissions[i + 1].exit_status.s), chars("exit_cost"))

\* The k most recent submissions all carry an exit status containing "exit_cost"
RecentExitCost(k) ==
    /\ Len(submissions) >= k
    /\ \A i \in (Len(submissions) - k)..(Len(submissions) - 1) : CarriesExitCost(i)

MaxAcceptedRule == 0 < cfg.max_accepted_draws /\ cfg.max_accepted_draws <= NumAccepted

C12_MinBudget ==
    last.op = "retry" =>
        /\ (/\ cfg.min_budget_for_new_attempt > 0
            /\ cfg.instance_cost_limit - last.arg < cfg.min_budget_for_new_attempt
            /\ cfg.model_kind \notin {"HumanModel", "HumanThoughtModel"})
               => last.ret = FALSE
        /\ (/\ \/ cfg.model_kind \in {"HumanModel", "HumanThoughtModel"}
               \/ cfg.min_budget_for_new_attempt = 0
            /\ ~HardCapRule /\ ~MinDrawsRule /\ ~MaxAcceptedRule /\ ~ExitCostRule)
               => last.ret = TRUE

C12_Witness ==
    /\ last.op = "retry"
    /\ validate(cfg)
    /\ cfg.min_budget_for_new_attempt = 1
    /\ cfg.model_kind = "LiteLLMModel"
    /\ cfg.instance_cost_limit - last.arg = 0
    /\ Len(submissions) = 1
    /\ ~HardCapRule /\ ~MinDrawsRule /\ ~MaxAcceptedRule /\ ~ExitCostRule
    /\ last.ret = FALSE

\* C13: retry returns true exactly when none of the five stop rules matches.
\* In particular, with the last three rules disabled, it returns true after an
\* accepted submission as long as there are fewer than min_draws (and fewer than
\* max_samples) submissions, and with max_samples = 2 and min_draws = 2 it
\* returns true after the first submission and false after the second.
C13_TrueIffNoRule ==
    last.op = "retry" =>
        /\ last.ret = TRUE <=>
               (~HardCapRule /\ ~MinDrawsRule /\ ~MaxAcceptedRule /\ ~ExitCostRule /\ ~BudgetRule)
        /\ (/\ cfg.max_accepted_draws = 0
            /\ cfg.max_n_consec_exit_cost = 0
            /\ cfg.min_budget_for_new_attempt = 0
            /\ NumAccepted >= 1
            /\ Len(submissions) < cfg.min_draws
            /\ Len(submissions) < cfg.max_samples) => last.ret = TRUE
        /\ (/\ cfg.max_samples = 2 /\ cfg.min_draws = 2
            /\ cfg.max_accepted_draws = 0
            /\ cfg.max_n_consec_exit_cost = 0
            /\ cfg.min_budget_for_new_attempt = 0) =>
               /\ Len(submissions) = 1 => last.ret = TRUE
               /\ Len(submissions) = 2 => last.ret = FALSE

C13_Witness ==
    /\ last.op = "retry"
    /\ cfg.max_samples = 2 /\ cfg.min_draws = 2
    /\ cfg.max_accepted_draws = 0
    /\ cfg.max_n_consec_exit_cost = 0
    /\ cfg.min_budget_for_new_attempt = 0
    /\ Len(submissions) = 1 /\ Len(reviews) = 1
    /\ reviews[1].accept
    /\ last.ret = TRUE

\* C14: a call of on_model_query raises AttemptCostLimitExceededError exactly
\* when attempt_cost_limit > 0 and the running attempt's cost is at least
\* attempt_cost_limit; with attempt_cost_limit <= 0 it returns; either way it
\* leaves submissions, reviews, comparisons, best index and counter as they were.
C14_AttemptCostLimit ==
    [][last'.op = "on_model_query" =>
          /\ last'.outcome \in {"returned", "AttemptCostLimitExceededError"}
          /\ last'.outcome = "AttemptCostLimitExceededError" <=>
                 (cfg.attempt_cost_limit > 0 /\ last'.arg >= cfg.attempt_cost_limit)
          /\ cfg.attempt_cost_limit <= 0 => last'.outcome = "returned"
          /\ UNCHANGED <<submissions, reviews, comparisons, best_idx, n_consec_exit_cost>>]_vars

C14_Witness ==
    /\ last.op = "on_model_query"
    /\ cfg.attempt_cost_limit = 1
    /\ last.arg = 1
    /\ last.outcome = "AttemptCostLimitExceededError"
    /\ Len(submissions) = 2 /\ Len(reviews) = 2

\* C15: get_best, retry and get_forwarded_vars are read-only: a call of any of
\* them leaves submissions, reviews, comparisons, best index and counter as they
\* were; a get_best that returns gives the best index; and a call repeated with
\* the same sampled budget ends as the call before it did, with the same value.
C15_ReadOnly ==
    [][last'.op \in {"get_best", "retry", "get_forwarded_vars"} =>
          /\ UNCHANGED <<submissions, reviews, comparisons, best_idx, n_consec_exit_cost>>
          /\ (last'.op = "get_best" /\ last'.outcome = "returned") => last'.ret = best_idx
          /\ (last.op = last'.op /\ last.arg = last'.arg) =>
                 (last'.outcome = last.outcome /\ last'.ret = last.ret)]_vars

C15_Witness ==
    /\ last.op = "get_best" /\ last.outcome = "returned"
    /\ cfg.binary_reviewer
    /\ Len(submissions) = 3 /\ Len(reviews) = 3
    /\ best_idx = 1
    /\ last.ret = 1

\* C16 as stated: the configuration is validated when it is constructed, so
\* every loop that exists was built from a configuration that validate accepts.
C16_ValidatedEagerly == validate(cfg)

\* The forwarding key is in a dict; the value the dict has under it
HasForwardingKey(d) == \E item \in d : item[1] = "failed_verdicts_with_submissions"

ForwardedValue(d) == (CHOOSE item \in d : item[1] = "failed_verdicts_with_submissions")[2]

\* C17 as stated: for every input the carrier returns a dict with the
\* forwarding key, and for no submissions, no reviews and no comparisons the
\* value under the key is the empty string.
C17_Original ==
    last.op = "forward" =>
        /\ last.outcome = "returned"
        /\ HasForwardingKey(last.ret)
        /\ (Len(submissions) = 0 /\ Len(reviews) = 0) => Len(ForwardedValue(last.ret)) = 0

\* C17, amended: for every input with as many reviews as submissions the
\* carrier returns a dict with the forwarding key, and for no submissions, no
\* reviews and no comparisons the value under the key is the empty string; for
\* lists of different lengths it ends with an AssertionError.
C17_KeyForParallelLists ==
    last.op = "forward" =>
        /\ Len(submissions) = Len(reviews) =>
               /\ last.outcome = "returned"
               /\ HasForwardingKey(last.ret)
               /\ Cardinality(last.ret) = 1
               /\ Len(submissions) = 0 => Len(ForwardedValue(last.ret)) = 0
        /\ Len(submissions) # Len(reviews) => last.outcome = "AssertionError"

C17_Witness ==
    /\ last.op = "forward" /\ last.outcome = "returned"
    /\ Len(submissions) = 0 /\ Len(reviews) = 0 /\ Len(comparisons) = 0
    /\ last.ret = {<<"failed_verdicts_with_submissions", <<>>>>}

NoExitStatus ==
    \/ submissions[1].exit_status.kind \in {"absent", "none"}
    \/ submissions[1].exit_status.s = ""

\* A review that rejected without a query of the oracle and without messages
DeskRejected(r) ==
    /\ r.exc = "none"
    /\ ~r.queried
    /\ ~r.result.accept
    /\ Len(r.result.messages) = 0

\* A review that queried the oracle once; if the oracle answered, the result
\* carries the system and the user message that were sent
Queried(r) ==
    /\ r.queried
    /\ r.exc = "none" =>
           /\ Len(r.result.messages) = 2
           /\ r.result.messages[1].role = "system"
           /\ r.result.messages[2].role = "user"
           /\ r.result.messages = Reviewer_format_messages(submissions[1])

\* C19 as stated: review desk-rejects when the submission carries no exit-status
\* value, and when reject_exit_status is set and the exit status is not exactly
\* "submitted"; in every other case it queries the oracle once and the result
\* carries the two messages.
C19_Original ==
    last.op = "review" =>
        IF NoExitStatus \/ (cfg.reject_exit_status /\ submissions[1].exit_status.s # "submitted")
        THEN DeskRejected(last.ret)
        ELSE Queried(last.ret)

\* C19, amended: review desk-rejects when the submission carries no exit-status
\* value, and when reject_exit_status is set and the exit status, with the
\* whitespace around it removed, is not "submitted"; in every other case it
\* queries the oracle once and the result carries the two messages.
C19_DeskReject ==
    last.op = "review" =>
        IF \/ NoExitStatus
           \/ /\ cfg.reject_exit_status
              /\ strip(chars(submissions[1].exit_status.s)) # chars("submitted")
        THEN DeskRejected(last.ret)
        ELSE Queried(last.ret)

C19_Witness ==
    /\ last.op = "review"
    /\ cfg.reject_exit_status
    /\ submissions[1].exit_status = Str("submitted (exit_cost)")
    /\ last.arg = [raises |-> FALSE, text |-> "success"]
    /\ DeskRejected(last.ret)

\* The last line of s that has a character other than whitespace (no
\* character when s has no such line)
LastNonEmptyLine(s) ==
    LET ink == {i \in 1..Len(s) : s[i] \notin Whitespace}
    IN  IF ink = {} THEN <<>>
        ELSE LET hi == CHOOSE i \in ink : \A j \in ink : j <= i
                 before == {i \in 1..hi : s[i] = "\n"}
                 after == {i \in hi..Len(s) : s[i] = "\n"}
                 lo == IF before = {} THEN 1
                       ELSE 1 + (CHOOSE i \in before : \A j \in before : j <= i)
                 up == IF after = {} THEN Len(s)
                       ELSE (CHOOSE i \in after : \A j \in after : i <= j) - 1
             IN  SubSeq(s, lo, up)

\* The verdict the last non-empty line of a response stands for
VerdictOf(response) ==
    LET line == lower(LastNonEmptyLine(chars(response)))
    IN  contains(line, chars("success"))

\* C20: the verdict of interpret, and so of a review that queried the oracle,
\* is decided by the last non-empty line of the response, read without regard
\* to case: accept if it contains "success", reject if it does not (whether it
\* contains "fail" or neither word, or the response is empty); interpret
\* always returns.
C20_LastLineVerdict ==
    /\ last.op = "interpret" =>
           /\ last.outcome = "returned"
           /\ last.ret \in BOOLEAN
           /\ last.ret = VerdictOf(last.arg)
    /\ (last.op = "review" /\ last.ret.queried /\ last.ret.exc = "none") =>
           last.ret.result.accept = VerdictOf(last.arg.text)

C20_Witness ==
    /\ last.op = "interpret"
    /\ last.arg = "SUCCESS\n \n"
    /\ last.ret = TRUE

\* C21 as stated: every call of compare_submissions queries the oracle once,
\* whatever the two review objects are, and the choice it returns is 0 if the
\* last non-empty line of the response contains "first", 1 if it contains
\* "second", and 0 for any other response.
C21_Original ==
    last.op = "compare_submissions" =>
        /\ last.ret.queried
        /\ last.ret.exc = "none" =>
               LET line == LastNonEmptyLine(chars(last.arg.text))
               IN  last.ret.result.choice =
                       IF contains(line, chars("first")) THEN 0
                       ELSE IF contains(line, chars("second")) THEN 1
                       ELSE 0

\* C21, amended: every call of compare_submissions queries the oracle once,
\* whatever the two review objects are, and the choice it returns is decided by
\* the last non-empty line of the response read without regard to case: 0 if
\* it contains "first", else 1 if it contains "second", else 0.
C21_AlwaysCompares ==
    /\ last.op = "compare_submissions" =>
           /\ last.ret.queried
           /\ last.ret.exc = "none" =>
                  LET line == lower(LastNonEmptyLine(chars(last.arg.text)))
                  IN  /\ last.ret.result.choice \in {0, 1}
                      /\ last.ret.result.choice =
                             IF contains(line, chars("first")) THEN 0
                             ELSE IF contains(line, chars("second")) THEN 1
                             ELSE 0
                      /\ Len(last.ret.result.messages) = 2
    /\ last.op = "interpret" =>
           LET line == lower(LastNonEmptyLine(chars(last.arg)))
           IN  last.ret = IF contains(line, chars("first")) THEN 0
                          ELSE IF contains(line, chars("second")) THEN 1
                          ELSE 0

C21_Witness ==
    /\ last.op = "compare_submissions"
    /\ reviews[1].kind = "review" /\ reviews[1].accept
    /\ reviews[2].kind = "review" /\ ~reviews[2].accept
    /\ last.arg = [raises |-> FALSE, text |-> "Second "]
    /\ last.ret.queried
    /\ last.ret.result.choice = 1

ExitCostSuffix ==
    CHOOSE k \in 0..Len(submissions) :
        /\ RecentExitCost(k)
        /\ \A j \in (k + 1)..Len(submissions) : ~RecentExitCost(j)

\* C23: after every on_submit (here: one that returned, in a run where no
\* oracle call has raised) the consecutive-cost-exit counter equals the length
\* of the longest suffix of the submission list in which every submission's
\* exit status contains "exit_cost".
C23_CounterIsSuffix ==
    (SubmitReturned /\ OraclesAnswered) => n_consec_exit_cost = ExitCostSuffix

\* C24: with a binary reviewer configured, after the first on_submit the best
\* index is 0, the binary reviewer has not been invoked and the comparison list
\* is empty, whatever the verdict of the first submission (and whether or not
\* the call returned).
C24_FirstIsBest ==
    (cfg.binary_reviewer /\ Len(outcomes) = 1) =>
        /\ best_idx = 0
        /\ bcalls = <<>>
        /\ comparisons = <<>>

C24_Witness ==
    /\ cfg.binary_reviewer
    /\ Len(outcomes) = 1 /\ outcomes[1] = "returned"
    /\ last.op = "on_submit"
    /\ Len(reviews) = 1 /\ reviews[1].accept
    /\ best_idx = 0 /\ bcalls = <<>>

\* C25: inside one on_submit the submission is appended first (it is stored
\* even when a later step raises), then the reviewer is invoked exactly once, on
\* the newest submission, and its result appended, and only then the tournament
\* update runs: the binary reviewer is invoked at most once, only after the
\* review of the newest submission has been stored, and on the newest
\* submission and its review; one on_submit makes at most two oracle calls.
C25_Ordering ==
    last.op = "on_submit" =>
        /\ Len(submissions) = pre.n_samples + 1
        /\ submissions[Len(submissions)] = last.arg
        /\ Len(rcalls) = pre.n_rcalls + 1
        /\ rcalls[Len(rcalls)] = Len(submissions) - 1
        /\ Len(reviews) \in {pre.n_reviews, pre.n_reviews + 1}
        /\ last.outcome = "returned" => Len(reviews) = pre.n_reviews + 1
        /\ Len(bcalls) \in {pre.n_bcalls, pre.n_bcalls + 1}
        /\ (Len(bcalls) = pre.n_bcalls + 1 \/ best_idx # pre.best_idx
                \/ Len(comparisons) # pre.n_comparisons) =>
               Len(reviews) = pre.n_reviews + 1
        /\ Len(bcalls) = pre.n_bcalls + 1 =>
               /\ bcalls[Len(bcalls)].sub2 = Len(submissions) - 1
               /\ bcalls[Len(bcalls)].rev2 = Len(reviews) - 1
        /\ (Len(rcalls) - pre.n_rcalls) + (Len(bcalls) - pre.n_bcalls) <= 2

C25_Witness ==
    /\ last.op = "on_submit" /\ last.outcome = "returned"
    /\ Len(submissions) = 3 /\ Len(reviews) = 3
    /\ Len(rcalls) = pre.n_rcalls + 1
    /\ Len(bcalls) = pre.n_bcalls + 1
    /\ bcalls[Len(bcalls)].sub2 = 2 /\ bcalls[Len(bcalls)].rev2 = 2

\* s is a prefix of t
IsPrefix(s, t) == Len(s) <= Len(t) /\ SubSeq(t, 1, Len(s)) = s

\* C26: engine state is append-only: no step changes, reorders or removes an
\* element already stored in the submission, review or comparison list, and
\* each on_submit that returns extends the submission list and the review list
\* by exactly one element and the comparison list by at most one.
C26_AppendOnly ==
    [][/\ IsPrefix(submissions, submissions')
       /\ IsPrefix(reviews, reviews')
       /\ IsPrefix(comparisons, comparisons')
       /\ (last'.op = "on_submit" /\ Len(outcomes') = Len(outcomes) + 1
              /\ last'.outcome = "returned") =>
              /\ Len(submissions') = Len(submissions) + 1
              /\ Len(reviews') = Len(reviews) + 1
              /\ Len(comparisons') \in {Len(comparisons), Len(comparisons) + 1}]_vars

C26_Witness ==
    /\ last.op = "on_submit" /\ last.outcome = "returned"
    /\ Len(submissions) = 3 /\ Len(reviews) = 3 /\ Len(comparisons) = 1
    /\ pre.n_comparisons = 1
    /\ reviews[1].accept /\ ~reviews[3].accept

\* C27 as stated: with no binary reviewer the comparison list is empty, and
\* with one the number of records always equals the number of comparator calls
\* made so far.
C27_Original ==
    /\ ~cfg.binary_reviewer => comparisons = <<>>
    /\ Len(comparisons) = Len(bcalls)

\* C27: with no binary reviewer the comparison list is empty and the comparator
\* is never called; with one, exactly one record is appended per comparator
\* call that returned and none for a call in which the oracle raised: the number
\* of records never exceeds the number of comparator calls, equals it as long
\* as no oracle call has raised, and an on_submit adds a record exactly when it
\* called the comparator and returned.
C27_RecordPerReturnedCall ==
    /\ ~cfg.binary_reviewer => (comparisons = <<>> /\ bcalls = <<>>)
    /\ Len(comparisons) <= Len(bcalls)
    /\ OraclesAnswered => Len(comparisons) = Len(bcalls)
    /\ last.op = "on_submit" =>
           Len(comparisons) - pre.n_comparisons =
               IF Len(bcalls) = pre.n_bcalls + 1 /\ last.outcome = "returned" THEN 1 ELSE 0

C27_Witness ==
    /\ cfg.binary_reviewer
    /\ last.op = "on_submit" /\ last.outcome = "returned"
    /\ Len(bcalls) = 2 /\ pre.n_bcalls = 1
    /\ Len(comparisons) = 1 /\ pre.n_comparisons = 0

\* The driver has stopped because retry() returned false
DriverDone == last.op = "retry" /\ last.ret = FALSE

\* The driver has a next step: an attempt is running and its on_submit follows
\* (server.py:469-477), or on_submit has returned and retry() follows (488)
DriverCanStep ==
    \/ last.op = "__init__"
    \/ last.op = "retry" /\ last.ret = TRUE
    \/ last.op = "on_submit" /\ last.outcome = "returned"

\* C28 as stated: under the driver protocol, for every valid configuration
\* the number of submissions never exceeds max_samples and the loop stops by
\* retry() returning false, after at most max_samples submissions: retry()
\* returns false once max_samples submissions are stored, and the driver never
\* stops in another way (every attempt finishes and the oracle answers, so it
\* is either done or has its next step).
C28_DriverStops ==
    /\ Len(submissions) <= cfg.max_samples
    /\ (last.op = "retry" /\ Len(submissions) >= cfg.max_samples) => last.ret = FALSE
    /\ DriverDone \/ DriverCanStep

\* C29 as stated: if the oracle raises during the review or the comparison
\* step of an on_submit, the engine state is the same as before the call (the
\* lists are append-only, so their lengths tell), and the submission and the
\* review list still have the same length.
C29_AtomicOnOracleFailure ==
    (last.op = "on_submit" /\ last.outcome = "OracleError") =>
        /\ Len(submissions) = pre.n_samples
        /\ Len(reviews) = pre.n_reviews
        /\ Len(comparisons) = pre.n_comparisons
        /\ best_idx = pre.best_idx
        /\ n_consec_exit_cost = pre.n_consec_exit_cost
        /\ Len(submissions) = Len(reviews)

\* The submission handed to the last on_submit carries no exit-status value:
\* the field is absent, or present with None, or the empty string
NoExitStatusValue == ~truthy(get(last.arg.exit_status))

\* C30 as stated: for a submission that carries no exit-status value, on_submit
\* returns normally (the oracle, if the comparison queries it, answering): a
\* rejecting desk-review is stored, the consecutive-cost-exit counter is reset
\* to zero, and the tournament update runs (without a binary reviewer the best
\* index is the newest one; with one, a rejected best is compared with the
\* newest submission).
C30_NoExitStatusReturns ==
    (last.op = "on_submit" /\ NoExitStatusValue /\ last.outcome # "OracleError") =>
        /\ last.outcome = "returned"
        /\ Len(reviews) = pre.n_reviews + 1
        /\ ~reviews[Len(reviews)].accept
        /\ reviews[Len(reviews)].output = NoExitStatusAnswer
        /\ n_consec_exit_cost = 0
        /\ ~cfg.binary_reviewer => best_idx = Len(submissions) - 1
        /\ (cfg.binary_reviewer /\ Len(submissions) >= 2) =>
               IF reviews[pre.best_idx + 1].accept
               THEN best_idx = pre.best_idx /\ Len(bcalls) = pre.n_bcalls
               ELSE Len(bcalls) = pre.n_bcalls + 1

\* One of the max_samples, min_draws and max_accepted_draws rules matches.  The
\* code tests these three first, so when one matches it is the cause of a false
\* result.
LastingRule == HardCapRule \/ MinDrawsRule \/ MaxAcceptedRule

\* retry has returned false, and either the counter rule and the budget rule
\* are both disabled or one of the three lasting rules matches
StoppedForGood ==
    /\ last.op = "retry"
    /\ last.ret = FALSE
    /\ \/ cfg.max_n_consec_exit_cost = 0 /\ cfg.min_budget_for_new_attempt = 0
       \/ LastingRule

\* A lasting rule matched before the last on_submit: the lists are append-only,
\* so the state before it is the first pre.n_samples submissions and the first
\* pre.n_reviews reviews
NumAcceptedBefore == Cardinality({i \in 1..pre.n_reviews : reviews[i].accept})

LastingRuleBefore ==
    \/ pre.n_samples >= cfg.max_samples
    \/ NumAcceptedBefore > 0 /\ pre.n_samples >= cfg.min_draws
    \/ 0 < cfg.max_accepted_draws /\ cfg.max_accepted_draws <= NumAcceptedBefore

\* C31: stopping is absorbing: once retry has returned false with the counter
\* and the budget rule disabled, or because of the max_samples, min_draws or
\* max_accepted_draws rule, every later retry returns false, whatever on_submit
\* calls come in between.  In three parts: such a false result rests on one of
\* the three lasting rules; a lasting rule that matched before an on_submit
\* matches after it (retry changes nothing they read); and a retry returns
\* false whenever a lasting rule matches.
C31_StopAbsorbing ==
    /\ StoppedForGood => LastingRule
    /\ (Len(outcomes) > 0 /\ LastingRuleBefore) => LastingRule
    /\ (last.op = "retry" /\ LastingRule) => last.ret = FALSE

C31_Witness ==
    /\ last.op = "retry" /\ last.ret = FALSE
    /\ cfg.max_n_consec_exit_cost = 0 /\ cfg.min_budget_for_new_attempt = 0
    /\ cfg.max_samples = 3 /\ cfg.min_draws = 1 /\ cfg.max_accepted_draws = 0
    /\ Len(submissions) = 2 /\ Len(reviews) = 2
    /\ reviews[1].accept /\ ~reviews[2].accept
    /\ LastingRuleBefore

\* C32: get_best checks the parity of the two lists only when a binary
\* reviewer is configured: with one, in a state where len(reviews) differs from
\* len(submissions), it fails with an AssertionError instead of returning an
\* index; in every other state it returns the best index.  No sequence of
\* on_submit calls that all returned normally reaches a state where the lengths
\* differ.
C32_ParityAsserted ==
    /\ last.op = "get_best" =>
           IF cfg.binary_reviewer /\ Len(reviews) # Len(submissions)
           THEN last.outcome = "AssertionError"
           ELSE last.outcome = "returned" /\ last.ret = best_idx
    /\ (\A i \in 1..Len(outcomes) : outcomes[i] = "returned") =>
           Len(reviews) = Len(submissions)

C32_Witness ==
    /\ last.op = "get_best" /\ last.outcome = "AssertionError"
    /\ cfg.binary_reviewer
    /\ Len(submissions) = 2 /\ Len(reviews) = 1
    /\ outcomes = <<"returned", "OracleError">>

\* C33: validate raises a ValueError exactly when min_draws < 1, or
\* max_samples < 1, or max_samples < min_draws, or max_accepted_draws >
\* min_draws, and returns for every other combination, whatever
\* max_n_consec_exit_cost, attempt_cost_limit and min_budget_for_new_attempt
\* are (0 included).
C33_ValueErrorExactlyWhen ==
    last.op = "validate" =>
        IF \/ cfg.min_draws < 1
           \/ cfg.max_samples < 1
           \/ cfg.max_samples < cfg.min_draws
           \/ cfg.max_accepted_draws > cfg.min_draws
        THEN last.outcome = "ValueError"
        ELSE last.outcome = "returned"

C33_Witness ==
    /\ last.op = "validate" /\ last.outcome = "returned"
    /\ cfg.max_samples = 2 /\ cfg.min_draws = 2 /\ cfg.max_accepted_draws = 2
    /\ cfg.max_n_consec_exit_cost = 0
    /\ cfg.attempt_cost_limit = 0
    /\ cfg.min_budget_for_new_attempt = 0

\* The indices (1-based) whose review is rejected and whose submission has a
\* non-empty final answer, in increasing order
ShownIdxs ==
    SelectSeq([i \in 1..Len(submissions) |-> i],
              LAMBDA i : /\ i <= Len(reviews)
                         /\ ~reviews[i].accept
                         /\ submissions[i].submission.kind = "str"
                         /\ submissions[i].submission.s # "")

\* The places of a str, given by its pieces, where a block starts
BlockStarts(v) == SelectSeq([k \in 1..Len(v) |-> k], LAMBDA k : v[k] = "Submission ")

\* The <<final answer, rationale>> pairs of the blocks of a str, in order
BlocksOf(v) ==
    [j \in 1..Len(BlockStarts(v)) |-> <<v[BlockStarts(v)[j] + 3], v[BlockStarts(v)[j] + 7]>>]

\* C34: for non-empty inputs the value the carrier forwards has exactly one
\* block for each index whose review is rejected and whose submission has a
\* non-empty final answer, the block pairs that final answer with that
\* review's rationale, and the blocks are in increasing index order; accepted
\* submissions and rejected ones without a final answer have no block.
C34_BlockPerShownRejection ==
    (last.op = "forward" /\ last.outcome = "returned" /\ Len(submissions) > 0) =>
        BlocksOf(ForwardedValue(last.ret)) =
            [j \in 1..Len(ShownIdxs) |->
                <<submissions[ShownIdxs[j]].submission.s, reviews[ShownIdxs[j]].output>>]

C34_Witness ==
    /\ last.op = "forward" /\ last.outcome = "returned"
    /\ Len(submissions) = 2
    /\ submissions[1].submission = Str("p") /\ submissions[2].submission = Str("q")
    /\ reviews[1].accept /\ reviews[1].output = "fail"
    /\ ~reviews[2].accept /\ reviews[2].output = "wrong"
    /\ BlocksOf(ForwardedValue(last.ret)) = << <<"q", "wrong">> >>

\* C35 as stated: whenever no rejected submission carries a non-empty final
\* answer (every review accepted, or every rejected submission without a
\* final answer), the value the carrier forwards is the empty string.
C35_EmptyWhenNoBlock ==
    (last.op = "forward" /\ last.outcome = "returned" /\ Len(ShownIdxs) = 0) =>
        Len(ForwardedValue(last.ret)) = 0

\* Every comparison record (l, r, result) has 0 <= l < r < len(submissions)
\* and result.choice in {0, 1}, and the right indices of successive records
\* are strictly increasing
RecordsWellFormed ==
    /\ \A k \in 1..Len(comparisons) :
          /\ 0 <= comparisons[k][1]
          /\ comparisons[k][1] < comparisons[k][2]
          /\ comparisons[k][2] < Len(submissions)
          /\ comparisons[k][3].choice \in {0, 1}
    /\ \A k \in 1..(Len(comparisons) - 1) : comparisons[k][2] < comparisons[k + 1][2]

\* C36 as stated: in every reachable state the comparison records are well
\* formed and there are at most len(submissions) - 1 of them.
C36_Original ==
    /\ RecordsWellFormed
    /\ Len(comparisons) <= Len(submissions) - 1

\* C36, amended: in every reachable state the comparison records are well
\* formed; once there is a submission there are at most len(submissions) - 1
\* records, and before the first submission there is none.
C36_RecordsBounded ==
    /\ RecordsWellFormed
    /\ Len(submissions) > 0 => Len(comparisons) <= Len(submissions) - 1
    /\ Len(submissions) = 0 => Len(comparisons) = 0

C36_Witness ==
    /\ Len(submissions) = 3
    /\ Len(comparisons) = 1
    /\ comparisons[1][1] = 1 /\ comparisons[1][2] = 2
    /\ comparisons[1][3].choice = 0
    /\ best_idx = 0

\* The formatter and the trajectory of the last call, as it was handed
TheFormatter == last.arg.formatter

Given == last.arg.given

\* The step's whitespace-trimmed action starts with one of the filter
\* prefixes, or the failed-edit flag is set and its observation contains the
\* failed-edit marker
Dropped(step) ==
    \/ \E k \in 1..Len(TheFormatter.traj_filter) :
          startswith(strip(chars(step.action)), chars(TheFormatter.traj_filter[k]))
    \/ /\ TheFormatter.filter_failed_edits
       /\ contains(chars(step.observation), chars(FailedEditMarker))

\* The places in the given trajectory of the steps that are not dropped, in order
Surviving == SelectSeq([i \in 1..Len(Given) |-> i], LAMBDA i : ~Dropped(Given[i]))

\* The places of a rendered str where a step starts, and the <<response,
\* observation>> pairs of its steps, in order
StepStarts(v) == SelectSeq([k \in 1..Len(v) |-> k], LAMBDA k : v[k] = "Model: ")

RenderedSteps(v) ==
    LET starts == StepStarts(v)
    IN  [j \in 1..Len(starts) |-> <<v[starts[j] + 1], v[starts[j] + 3]>>]

\* C37: format_trajectory renders, in their order, exactly the steps that are
\* not dropped, a step being dropped iff its whitespace-trimmed action starts
\* with one of the filter prefixes or the failed-edit flag is set and its
\* observation contains the marker; and the call leaves the trajectory it was
\* handed as it was.
C37_RendersSurvivors ==
    last.op = "format_trajectory" =>
        LET rendered == RenderedSteps(last.ret)
            surviving == Surviving
        IN  /\ Len(rendered) = Len(surviving)
            /\ \A j \in 1..Len(surviving) :
                  /\ rendered[j][1] = Given[surviving[j]].response
                  /\ rendered[j][2] \in {Given[surviving[j]].observation, OutputOmitted}
            /\ last.arg.trajectory = Given

C37_Witness ==
    /\ last.op = "format_trajectory"
    /\ TheFormatter.traj_filter = <<"rm", "ls">>
    /\ TheFormatter.filter_failed_edits
    /\ TheFormatter.only_show_last_n_output = 1
    /\ Len(Given) = 3
    /\ Given[1].action = " ls\n" /\ Given[1].observation = "ok"
    /\ Given[2].action = "cat" /\ Given[2].observation # "ok"
    /\ Given[3].action = "cat" /\ Given[3].observation = "ok"
    /\ Given[3].response = "second"
    /\ last.ret = <<"Model: ", "second", "\n\nObservation: ", "ok">>
    /\ last.arg.trajectory = Given

\* The observation a surviving step is rendered with is the placeholder iff
\* redacted(step, number of surviving steps after it) holds, and the step's
\* own observation otherwise
RedactedExactlyWhen(redacted(_, _)) ==
    LET rendered == RenderedSteps(last.ret)
        surviving == Surviving
    IN  /\ Len(rendered) = Len(surviving)
        /\ \A j \in 1..Len(surviving) :
              /\ rendered[j][1] = Given[surviving[j]].response
              /\ rendered[j][2] =
                     IF redacted(Given[surviving[j]], Len(surviving) - j)
                     THEN OutputOmitted
                     ELSE Given[surviving[j]].observation

\* A surviving step with n_after surviving steps after it is not among the
\* last N surviving steps, N > 0
OutsideWindow(n_after) ==
    /\ TheFormatter.only_show_last_n_output > 0
    /\ n_after >= TheFormatter.only_show_last_n_output

\* C38 as stated: a surviving step is rendered with the placeholder for its
\* observation iff, N > 0, it is not among the last N surviving steps, or its
\* action starts with an output-filter prefix; every surviving step is rendered.
C38_Original ==
    last.op = "format_trajectory" =>
        RedactedExactlyWhen(LAMBDA step, n_after :
            \/ OutsideWindow(n_after)
            \/ \E k \in 1..Len(TheFormatter.traj_output_filter) :
                  startswith(chars(step.action),
                             chars(TheFormatter.traj_output_filter[k])))

\* C38, amended: a surviving step is rendered with the placeholder for its
\* observation iff, N > 0, it is not among the last N surviving steps, or its
\* whitespace-trimmed action starts with an output-filter prefix; with N = 0
\* only the prefixes redact; every surviving step is rendered.
C38_RedactsTrimmedAction ==
    last.op = "format_trajectory" =>
        RedactedExactlyWhen(LAMBDA step, n_after :
            \/ OutsideWindow(n_after)
            \/ \E k \in 1..Len(TheFormatter.traj_output_filter) :
                  startswith(strip(chars(step.action)),
                             chars(TheFormatter.traj_output_filter[k])))

C38_Witness ==
    /\ last.op = "format_trajectory"
    /\ TheFormatter.traj_filter = <<>>
    /\ TheFormatter.traj_output_filter = <<"rm", "ls">>
    /\ TheFormatter.filter_failed_edits
    /\ TheFormatter.only_show_last_n_output = 2
    /\ Len(Given) = 3 /\ Len(Surviving) = 2
    /\ Given[1].action = "cat" /\ Given[1].observation = "ok"
    /\ Given[2].observation # "ok"
    /\ Given[3].action = " ls\n" /\ Given[3].observation = "ok"
    /\ RenderedSteps(last.ret) =
           << <<Given[1].response, "ok">>, <<Given[3].response, OutputOmitted>> >>

=============================================================================
